---- MODULE Spec2Model ----
(***************************************************************************)
(* Model of the Spotify dashboard (App.tsx): the load effect with its row   *)
(* mapper and cleaning filter, the App component with its year selector,   *)
(* and the three aggregations that feed the charts -- genre-by-year        *)
(* weighting, the top-N popularity scatter with its duration legend, and   *)
(* the popularity-by-album-type box-plot summary.                          *)
(*                                                                         *)
(* Spec follows the component from construction through the load and the   *)
(* controls (year selectors, duration filter, dots, Reset) and the pointer *)
(* handlers of the box plot; SpecLive is Spec with the fairness of the     *)
(* first render and of the settling request; SpecModal follows the modal   *)
(* and the animation frames of its draw effect; SpecLoad applies the load  *)
(* effect to every bounded CSV file; SpecGenre, SpecScatter and SpecBox    *)
(* apply one aggregation each to bounded and generated row sets, the load  *)
(* settled and no filter chosen.                                           *)
(*                                                                         *)
(* Numbers.  JavaScript numbers are modelled by exact rationals <<n, d>>   *)
(* (d > 0, lowest terms); popularity, followers, durations and years are   *)
(* integers.  NaN is a distinguished value.                                *)
(* Strings.  A string is a sequence of atoms; an atom is either a          *)
(* separator (",", " ", tab) or a word that contains neither a comma nor   *)
(* whitespace.  A missing (undefined) field is a field that the record     *)
(* does not have.  A numeric string is a sequence of one-character atoms.  *)
(***************************************************************************)
EXTENDS Integers, Sequences, FiniteSets, TLC

VARIABLES
    rows,          \* useState: the cleaned rows
    pc,            \* "pending" before the aggregation has run, "done" after;
                   \* in Spec: "created", "fetching", "settled"
    topGenres,     \* useMemo: ranked genre labels
    byYearGenre,   \* useMemo: <<[year, genre, count]>>
    v2Data,        \* drawScatterTilesTopN: the selected top-N rows
    v2LegendMin,   \* state set from drawScatterTilesTopN's legendMin
    v2LegendMax,   \* state set from drawScatterTilesTopN's legendMax
    v3Summary,     \* drawBoxplotPopularity: summary per drawn album type
    v2Size,        \* the measured size of the scatter's container
    v3Size,        \* the measured size of the box plot's container
    loading,       \* useState: TRUE until the load has settled
    yearRange,     \* useState: Null or <<from, to>>
    response,      \* what the request for the CSV file delivers
    csvData,       \* the load effect's data: one mapped record per CSV record
    consoleErrors, \* number of console.error calls
    ranWhileLoading, \* the aggregations and draws executed while loading was TRUE
    rowsAssigned,  \* number of setRows calls
    durMode,       \* useState: "all", "ge" or "le"
    durThreshold,  \* useState: the duration threshold in minutes
    showV3Dots,    \* useState: the sample dots of the box plot are shown
    v3HoverType,   \* useState: NullType or the hovered album type
    v3LockedType,  \* useState: NullType or the locked album type
    pointer,       \* NullType or the album type of the box under the pointer
    selectedPair,  \* Null or the pair <<from, to>> last handed to setYearRangeSafe
    boxOpts,       \* the opts that the handlers bound by the last box-plot draw close over
    activeView,    \* useState: NullType or the view shown in the modal
    modalSize,     \* useResizeObserver(modalBodyRef)
    raf,           \* the pending animation-frame callback of the live modal effect
    orphan,        \* the pending callback of a modal effect that was cleaned up
    modalDrawn,    \* the view last drawn into the modal's svg
    ranAfterCleanup \* a draw callback executed after its effect was cleaned up

vars == <<rows, pc, topGenres, byYearGenre, v2Data, v2LegendMin, v2LegendMax, v3Summary,
          v2Size, v3Size, loading, yearRange, response, csvData, consoleErrors, ranWhileLoading,
          rowsAssigned, durMode, durThreshold, showV3Dots, v3HoverType, v3LockedType, pointer,
          selectedPair, boxOpts, activeView, modalSize, raf, orphan, modalDrawn, ranAfterCleanup>>

sizeVars == <<v2Size, v3Size>>

v1Vars == <<topGenres, byYearGenre>>
v2Vars == <<v2Data, v2LegendMin, v2LegendMax>>
v3Vars == <<v3Summary>>
loadVars == <<loading, response, csvData, consoleErrors, ranWhileLoading, rowsAssigned>>
uiVars == <<durMode, durThreshold, showV3Dots, v3HoverType, v3LockedType, pointer,
            selectedPair, boxOpts>>
modalVars == <<activeView, modalSize, raf, orphan, modalDrawn, ranAfterCleanup>>

(***************************************************************************)
(* Bounds of the model.                                                    *)
(***************************************************************************)
MaxGenreRows == 3
MaxScatterRows == 3
MaxBoxRows == 4

(***************************************************************************)
(* Exact rational arithmetic.                                              *)
(***************************************************************************)
Abs(n) == IF n < 0 THEN -n ELSE n

RECURSIVE GCD(_, _)
GCD(a, b) == IF b = 0 THEN a ELSE GCD(b, a % b)

Frac(n, d) ==
    LET s == IF d < 0 THEN -1 ELSE 1
        g == GCD(Abs(n), Abs(d))
    IN  <<(s * n) \div g, (s * d) \div g>>

Num(n) == <<n, 1>>
RAdd(a, b) == Frac(a[1] * b[2] + b[1] * a[2], a[2] * b[2])
RSub(a, b) == Frac(a[1] * b[2] - b[1] * a[2], a[2] * b[2])
RMul(a, b) == Frac(a[1] * b[1], a[2] * b[2])
RLe(a, b) == a[1] * b[2] <= b[1] * a[2]
RLt(a, b) == a[1] * b[2] < b[1] * a[2]
RMin(a, b) == IF RLe(a, b) THEN a ELSE b
RMax(a, b) == IF RLe(a, b) THEN b ELSE a
RFloor(a) == a[1] \div a[2]

NaN == -999
isFinite(x) == x # NaN

\* null (no year range selected)
Null == <<>>

\* null where an album type or a view name is expected
NullType == "(null)"

ZeroSize == [width |-> 0, height |-> 0]

\* no animation-frame callback is pending
NoRaf == [stage |-> "none", view |-> NullType, size |-> ZeroSize, attached |-> FALSE]

SetOf(s) == { s[i] : i \in 1..Len(s) }

InSeq(x, s) == \E i \in 1..Len(s) : s[i] = x

Min(a, b) == IF a <= b THEN a ELSE b
Max(a, b) == IF a >= b THEN a ELSE b

(***************************************************************************)
(* Strings as atom sequences.                                              *)
(***************************************************************************)
IsSpace(a) == a \in {" ", "\t"}

toLowerCase(s) ==
    [i \in 1..Len(s) |->
        CASE s[i] = "POP" -> "pop"
          [] s[i] = "Rock" -> "rock"
          [] s[i] = "N/A" -> "n/a"
          [] s[i] = "Album" -> "album"
          [] s[i] = "SINGLE" -> "single"
          [] s[i] = "EP" -> "ep"
          [] OTHER -> s[i]]

RECURSIVE trimStart(_)
trimStart(s) ==
    IF s # <<>> /\ IsSpace(Head(s)) THEN trimStart(Tail(s)) ELSE s

RECURSIVE trimEnd(_)
trimEnd(s) ==
    IF s # <<>> /\ IsSpace(s[Len(s)]) THEN trimEnd(SubSeq(s, 1, Len(s) - 1)) ELSE s

trim(s) == trimEnd(trimStart(s))

\* x.replace(/\s+/g, " "): every maximal run of whitespace becomes one space
RECURSIVE collapseSpaces(_)
collapseSpaces(s) ==
    IF s = <<>> THEN <<>>
    ELSE IF IsSpace(Head(s))
         THEN <<" ">> \o collapseSpaces(trimStart(s))
         ELSE <<Head(s)>> \o collapseSpaces(Tail(s))

\* raw.split(","): the pieces between the commas, empty pieces included
RECURSIVE splitComma(_, _)
splitComma(s, cur) ==
    IF s = <<>> THEN <<cur>>
    ELSE IF Head(s) = ","
         THEN <<cur>> \o splitComma(Tail(s), <<>>)
         ELSE splitComma(Tail(s), Append(cur, Head(s)))

bad == {<<"n/a">>, <<"na">>, <<"none">>, <<"unknown">>, <<"null">>, <<"undefined">>, <<>>}

\* a missing field reads as undefined; (s ?? "") is then the empty string
Field(r, f) == IF f \in DOMAIN r THEN r[f] ELSE <<>>

\* s without the elements that occurred before
RECURSIVE distinct(_)
distinct(s) ==
    IF s = <<>> THEN <<>>
    ELSE LET init == distinct(SubSeq(s, 1, Len(s) - 1))
         IN  IF InSeq(s[Len(s)], init) THEN init ELSE Append(init, s[Len(s)])

\* the parsed genres with repeated genres dropped
parseGenres_distinct(s) ==
    LET raw == trim(s)
    IN  IF raw = <<>> THEN <<>>
        ELSE LET parts == splitComma(raw, <<>>)
                 norm == [i \in 1..Len(parts) |-> collapseSpaces(toLowerCase(trim(parts[i])))]
             IN  distinct(SelectSeq(norm, LAMBDA x: x \notin bad))

parseGenres(s) ==
    LET raw == trim(s)
    IN  IF raw = <<>> THEN <<>>
        ELSE LET parts == splitComma(raw, <<>>)
                 norm == [i \in 1..Len(parts) |-> collapseSpaces(toLowerCase(trim(parts[i])))]
             IN  SelectSeq(norm, LAMBDA x: x \notin bad)

(***************************************************************************)
(* (a) Genre-by-year weighting: the useMemo over [rows].                   *)
(***************************************************************************)
yearExtent == <<1998, 2025>>
TopGenreCount == 10

\* Map.get(g) ?? 0 on an insertion-ordered list of <<key, value>> entries
mapGet(m, g) ==
    IF \E i \in 1..Len(m) : m[i][1] = g
    THEN m[CHOOSE i \in 1..Len(m) : m[i][1] = g][2]
    ELSE Num(0)

\* Map.set(g, v): an existing key keeps its position, a new key is appended
mapSet(m, g, v) ==
    IF \E i \in 1..Len(m) : m[i][1] = g
    THEN LET i == CHOOSE j \in 1..Len(m) : m[j][1] = g
         IN  SubSeq(m, 1, i - 1) \o <<<<g, v>>>> \o SubSeq(m, i + 1, Len(m))
    ELSE Append(m, <<g, v>>)

\* for (const g of gs) counts.set(g, (counts.get(g) ?? 0) + w); the map
\* after an iteration (next) is computed before the following iteration
RECURSIVE addEach(_, _, _)
addEach(m, gs, w) ==
    IF gs = <<>> THEN m
    ELSE CHOOSE out \in { addEach(next, rest, w) :
                             next \in {mapSet(m, Head(gs), RAdd(mapGet(m, Head(gs)), w))},
                             rest \in {Tail(gs)} } : TRUE

\* every occurrence counted in full instead of 1/k
genreWeight_unweighted(k) == Num(1)

\* the weight of one genre occurrence of a row that lists k genres
genreWeight(k) == Frac(1, k)

\* the body of the genre-frequency loop for one row
addRowGenres(m, r) ==
    LET gs == parseGenres(Field(r, "artist_genres"))
    IN  IF Len(gs) = 0 THEN m
        ELSE addEach(m, gs, genreWeight(Len(gs)))

RECURSIVE genreCountsOf(_, _)
genreCountsOf(m, rs) ==
    IF rs = <<>> THEN m
    ELSE CHOOSE out \in { genreCountsOf(next, rest) :
                             next \in {addRowGenres(m, Head(rs))},
                             rest \in {Tail(rs)} } : TRUE

inYearExtent(r) == r.year >= yearExtent[1] /\ r.year <= yearExtent[2]

\* an entry is placed before the entries of equal count (ties reversed)
RECURSIVE insertByCountDesc_unstable(_, _)
insertByCountDesc_unstable(sorted, e) ==
    IF sorted = <<>> THEN <<e>>
    ELSE IF RLt(e[2], Head(sorted)[2])
         THEN <<Head(sorted)>> \o insertByCountDesc_unstable(Tail(sorted), e)
         ELSE <<e>> \o sorted

\* Array.prototype.sort((a, b) => b[1] - a[1]) is stable: an entry is placed
\* after every entry whose count is not smaller
RECURSIVE insertByCountDesc(_, _)
insertByCountDesc(sorted, e) ==
    IF sorted = <<>> THEN <<e>>
    ELSE IF RLe(e[2], Head(sorted)[2])
         THEN <<Head(sorted)>> \o insertByCountDesc(Tail(sorted), e)
         ELSE <<e>> \o sorted

RECURSIVE sortByCountDesc(_, _)
sortByCountDesc(sorted, m) ==
    IF m = <<>> THEN sorted
    ELSE CHOOSE out \in { sortByCountDesc(next, rest) :
                             next \in {insertByCountDesc(sorted, Head(m))},
                             rest \in {Tail(m)} } : TRUE

topGenresOf(genreCounts) ==
    LET s == sortByCountDesc(<<>>, genreCounts)
        t == SubSeq(s, 1, Min(TopGenreCount, Len(s)))
    IN  [i \in 1..Len(t) |-> t[i][1]]

\* the per-year loop counting every in-set occurrence in full
addRowTopGenres_unweighted(counts, r, top) ==
    LET gsAll == parseGenres(Field(r, "artist_genres"))
        gs == SelectSeq(gsAll, LAMBDA g: InSeq(g, top))
    IN  IF Len(gs) = 0 THEN counts
        ELSE addEach(counts, gs, Num(1))

\* the per-year loop sharing a row's weight among its in-set genres only
addRowTopGenres_reweighted(counts, r, top) ==
    LET gsAll == parseGenres(Field(r, "artist_genres"))
        gs == SelectSeq(gsAll, LAMBDA g: InSeq(g, top))
    IN  IF Len(gs) = 0 THEN counts
        ELSE addEach(counts, gs, Frac(1, Len(gs)))

\* the per-year loop skipping every row that lists a genre outside the set
addRowTopGenres_excluding(counts, r, top) ==
    LET gsAll == parseGenres(Field(r, "artist_genres"))
        gs == SelectSeq(gsAll, LAMBDA g: InSeq(g, top))
    IN  IF Len(gs) = 0 \/ Len(gs) < Len(gsAll) THEN counts
        ELSE addEach(counts, gs, Frac(1, Len(gsAll)))

\* the body of the per-year loop for one row
addRowTopGenres(counts, r, top) ==
    LET gsAll == parseGenres(Field(r, "artist_genres"))
        gs == SelectSeq(gsAll, LAMBDA g: InSeq(g, top))
    IN  IF Len(gs) = 0 THEN counts
        ELSE addEach(counts, gs, Frac(1, Len(gsAll)))

RECURSIVE yearCountsOf(_, _, _)
yearCountsOf(counts, rs, top) ==
    IF rs = <<>> THEN counts
    ELSE CHOOSE out \in { yearCountsOf(next, rest, top) :
                             next \in {addRowTopGenres(counts, Head(rs), top)},
                             rest \in {Tail(rs)} } : TRUE

\* only the genres that received a count are pushed (no zero fill)
yearCells_sparse(y, counts, top) ==
    LET present == SelectSeq(top, LAMBDA g: \E i \in 1..Len(counts) : counts[i][1] = g)
    IN  [i \in 1..Len(present) |->
            [year |-> y, genre |-> present[i], count |-> mapGet(counts, present[i])]]

\* for (const g of topGenres) byYearGenre.push({year: y, genre: g, count: counts.get(g) ?? 0})
yearCells(y, counts, top) ==
    [i \in 1..Len(top) |-> [year |-> y, genre |-> top[i], count |-> mapGet(counts, top[i])]]

RECURSIVE byYearGenreOf(_, _, _)
byYearGenreOf(y, rowsInRange, top) ==
    IF y > yearExtent[2] THEN <<>>
    ELSE LET yearRows == SelectSeq(rowsInRange, LAMBDA d: d.year = y)
             counts == yearCountsOf(<<>>, yearRows, top)
         IN  yearCells(y, counts, top) \o byYearGenreOf(y + 1, rowsInRange, top)

genreMemo(rs) ==
    IF Len(rs) = 0
    THEN [byYearGenre |-> <<>>, topGenres |-> <<>>]
    ELSE LET rowsInRange == SelectSeq(rs, inYearExtent)
             genreCounts == genreCountsOf(<<>>, rowsInRange)
             top == topGenresOf(genreCounts)
         IN  [byYearGenre |-> byYearGenreOf(yearExtent[1], rowsInRange, top),
              topGenres |-> top]

(***************************************************************************)
(* Rows.  Every row has the numeric fields; the string fields are optional.*)
(***************************************************************************)
BaseRow ==
    [track_id |-> 0, track_name |-> <<"song">>, artist_name |-> <<"artist">>,
     track_popularity |-> 50, artist_popularity |-> 50, artist_followers |-> 1000,
     artist_genres |-> <<"pop">>, album_type |-> "album", year |-> 2020,
     track_duration_min |-> 3]

\* the row without field f (the CSV has no such column value)
Without(r, f) == [g \in DOMAIN r \ {f} |-> r[g]]

Row(id, yr, genres) ==
    [BaseRow EXCEPT !.track_id = id, !.year = yr, !.artist_genres = genres]

RowNoGenres(id, yr) == Without(Row(id, yr, <<>>), "artist_genres")

ElevenGenres ==
    <<"a", ",", "b", ",", "c", ",", "d", ",", "e", ",", "f", ",", "g", ",",
      "h", ",", "i", ",", "j", ",", "k">>

GenreRowPool ==
    { Row(1, 2020, <<"pop", ",", "rock">>),
      Row(2, 2020, <<"pop">>),
      Row(3, 2021, <<"jazz">>),
      Row(4, 1998, <<" ", "POP", ",", "N/A", ",", "hip", "\t", " ", "hop", " ">>),
      Row(5, 2025, <<"rock", ",", "pop", ",", "rock">>),
      Row(6, 2021, <<"unknown", ",", " ", ",", "na", ",", "none", ",", "null", ",", " ",
                     "undefined">>),
      Row(7, 1997, <<"jazz", ",", "pop">>),
      Row(8, 2026, <<"rock", ",", "none", "\t", "pop", ",", ",", "pop", ",">>),
      Row(9, 2021, ElevenGenres),
      RowNoGenres(10, 2020) }

SeqsUpTo(S, n) == UNION { [1..k -> S] : k \in 0..n }

TenGenres ==
    <<"a", ",", "b", ",", "c", ",", "d", ",", "e", ",", "f", ",", "g", ",",
      "h", ",", "i", ",", "j">>

TwelveOtherGenres ==
    <<"k", ",", "l", ",", "m", ",", "n", ",", "o", ",", "p", ",", "q", ",",
      "r", ",", "s", ",", "t", ",", "u", ",", "v">>

\* row sets with more than ten genres: a..j are the top ten, the first row
\* lists k besides them and the last row lists none of them
CrowdedGenreRows ==
    { << Row(11, y1, ElevenGenres), Row(12, 2021, TenGenres), Row(13, y2, TwelveOtherGenres) >> :
          y1 \in {2020, 2021}, y2 \in {2021, 2025} }

\* the initial values of the filters, the album-type selection and the
\* modal (the duration threshold is set by the clamp effect at mount)
NoInteraction ==
    /\ durMode = "all"
    /\ showV3Dots = TRUE
    /\ v3HoverType = NullType
    /\ v3LockedType = NullType
    /\ pointer = NullType
    /\ selectedPair = Null
    /\ boxOpts = [lockedType |-> NullType]
    /\ activeView = NullType
    /\ modalSize = ZeroSize
    /\ raf = NoRaf
    /\ orphan = NoRaf
    /\ modalDrawn = NullType
    /\ ranAfterCleanup = FALSE

\* the load has settled with the rows under study and no filter is selected
LoadedNoFilter ==
    /\ loading = FALSE
    /\ yearRange = Null
    /\ response = [ok |-> TRUE, columns |-> {}, records |-> <<>>]
    /\ csvData = <<>>
    /\ consoleErrors = 0
    /\ ranWhileLoading = {}
    /\ rowsAssigned = 1
    /\ NoInteraction

(***************************************************************************)
(* SpecGenre: the genre memo applied to every bounded row set.             *)
(***************************************************************************)
InitGenre ==
    /\ rows \in SeqsUpTo(GenreRowPool, MaxGenreRows) \cup CrowdedGenreRows
    /\ pc = "pending"
    /\ topGenres = <<>>
    /\ byYearGenre = <<>>
    /\ v2Data = <<>>
    /\ v2LegendMin = Num(0)
    /\ v2LegendMax = Num(1)
    /\ v3Summary = <<>>
    /\ v2Size = [width |-> 600, height |-> 400]
    /\ v3Size = [width |-> 600, height |-> 400]
    /\ LoadedNoFilter
    \* every row of the pool lasts 3 minutes: the clamp effect has set the
    \* threshold to 1 at mount and has left it there since
    /\ durThreshold = Num(1)

ComputeGenreMemo ==
    /\ pc = "pending"
    /\ LET m == genreMemo(rows)
       IN  /\ topGenres' = m.topGenres
           /\ byYearGenre' = m.byYearGenre
    /\ pc' = "done"
    /\ UNCHANGED <<rows, v2Vars, v3Vars, sizeVars, yearRange, loadVars, uiVars, modalVars>>

NextGenre == ComputeGenreMemo

SpecGenre == InitGenre /\ [][NextGenre]_vars

(***************************************************************************)
(* Properties of the genre-by-year weighting.                              *)
(***************************************************************************)
RECURSIVE mapTotalFrom(_, _)
mapTotalFrom(acc, m) ==
    IF m = <<>> THEN acc
    ELSE CHOOSE out \in { mapTotalFrom(next, rest) :
                             next \in {RAdd(acc, Head(m)[2])}, rest \in {Tail(m)} } : TRUE

mapTotal(m) == mapTotalFrom(Num(0), m)

RowsInRange == SelectSeq(rows, inYearExtent)
GenresOfRow(r) == parseGenres(Field(r, "artist_genres"))

\* what row r adds to the total of the counts m
ContributionTo(m, r) == RSub(mapTotal(addRowGenres(m, r)), mapTotal(m))

\* what row r adds to the total of genreCounts when the rows before it
\* have been counted
RowContribution(before, r) == ContributionTo(genreCountsOf(<<>>, before), r)

\* C1: in the genre-frequency pass every row in the year range with k >= 1
\* parsed genres adds weights that sum to exactly 1 to genreCounts, and a
\* row with k = 0 adds nothing.
C1_RowWeightsSumToOne ==
    pc = "done" =>
        LET rir == RowsInRange
        IN  \A i \in 1..Len(rir) :
                LET k == Len(GenresOfRow(rir[i]))
                    c == RowContribution(SubSeq(rir, 1, i - 1), rir[i])
                IN  c = (IF k >= 1 THEN Num(1) ELSE Num(0))

C1_Witness ==
    /\ pc = "done"
    /\ Len(topGenres) >= 2
    /\ \E i, j \in 1..Len(RowsInRange) :
          /\ Len(GenresOfRow(RowsInRange[i])) = 3
          /\ Cardinality(SetOf(GenresOfRow(RowsInRange[i]))) = 2
          /\ Len(GenresOfRow(RowsInRange[j])) = 0

Years == yearExtent[1]..yearExtent[2]

CellIndexes(y, g) ==
    { i \in 1..Len(byYearGenre) : byYearGenre[i].year = y /\ byYearGenre[i].genre = g }

CellKeys == { <<byYearGenre[i].year, byYearGenre[i].genre>> : i \in 1..Len(byYearGenre) }

\* C2: byYearGenre has exactly one entry for every (year, genre) with the
\* year in the year extent and the genre in topGenres, no other entry, and
\* no negative count.  (The entries map one-to-one onto the pairs: their
\* keys are exactly the pairs, and no key occurs twice.)
C2_MatrixComplete ==
    pc = "done" =>
        /\ CellKeys = Years \X SetOf(topGenres)
        /\ Cardinality(CellKeys) = Len(byYearGenre)
        /\ \A i \in 1..Len(byYearGenre) : RLe(Num(0), byYearGenre[i].count)

C2_Witness ==
    /\ pc = "done"
    /\ Len(topGenres) >= 3
    /\ \E i, j \in 1..Len(byYearGenre) :
          /\ byYearGenre[i].year = byYearGenre[j].year
          /\ byYearGenre[i].count = Num(0)
          /\ RLt(Num(0), byYearGenre[j].count)

Cell(y, g) == byYearGenre[CHOOSE i \in CellIndexes(y, g) : TRUE].count

ScenarioRows ==
    { Row(1, 2020, <<"pop", ",", "rock">>),
      Row(2, 2020, <<"pop">>),
      Row(3, 2021, <<"jazz">>) }

IsScenario == Len(rows) = 3 /\ SetOf(rows) = ScenarioRows

\* C3: for the rows {pop,rock 2020}, {pop 2020}, {jazz 2021} the top genres
\* are pop, rock and jazz and the cells are 2020 pop 1.5, rock 0.5, jazz 0
\* and 2021 pop 0, rock 0, jazz 1.
C3_Scenario ==
    (pc = "done" /\ IsScenario) =>
        /\ SetOf(topGenres) = {<<"pop">>, <<"rock">>, <<"jazz">>}
        /\ Len(topGenres) = 3
        /\ Cell(2020, <<"pop">>) = Frac(3, 2)
        /\ Cell(2020, <<"rock">>) = Frac(1, 2)
        /\ Cell(2020, <<"jazz">>) = Num(0)
        /\ Cell(2021, <<"pop">>) = Num(0)
        /\ Cell(2021, <<"rock">>) = Num(0)
        /\ Cell(2021, <<"jazz">>) = Num(1)

C3_Witness == pc = "done" /\ IsScenario /\ Len(byYearGenre) > 0

\* the genre occurrences of the rows rs, in the order the rows list them
RECURSIVE Occurrences(_)
Occurrences(rs) ==
    IF rs = <<>> THEN <<>> ELSE GenresOfRow(Head(rs)) \o Occurrences(Tail(rs))

CountOf(g, gs) == Cardinality({ i \in 1..Len(gs) : gs[i] = g })

\* the total weighted count of genre g over the rows rs: each row that
\* lists k genres gives 1/k per occurrence of g
RECURSIVE TotalWeight(_, _)
TotalWeight(g, rs) ==
    IF rs = <<>> THEN Num(0)
    ELSE LET gs == GenresOfRow(Head(rs))
         IN  RAdd(IF Len(gs) = 0 THEN Num(0) ELSE Frac(CountOf(g, gs), Len(gs)),
                  TotalWeight(g, Tail(rs)))

FirstSeen(g, occ) == CHOOSE i \in 1..Len(occ) : occ[i] = g /\ \A j \in 1..(i - 1) : occ[j] # g

\* the order is stated on neighbours, which gives it for every pair, and
\* the genres left out are compared with the last (lightest) one kept
RankedTopGenres(top, rs) ==
    LET occ == Occurrences(rs)
    IN  /\ Len(top) <= 10
        /\ SetOf(top) \subseteq SetOf(occ)
        /\ Cardinality(SetOf(top)) = Len(top)
        /\ \A i \in 1..(Len(top) - 1) :
              LET a == TotalWeight(top[i], rs)
                  b == TotalWeight(top[i + 1], rs)
              IN  /\ RLe(b, a)
                  /\ a = b => FirstSeen(top[i], occ) < FirstSeen(top[i + 1], occ)
        /\ \A g \in SetOf(occ) \ SetOf(top) :
              Len(top) > 0 => RLe(TotalWeight(g, rs), TotalWeight(top[Len(top)], rs))

\* C11: topGenres has at most 10 entries and no duplicates, is ordered by
\* total weighted count descending, no genre left out outweighs a genre in
\* it, and genres of equal total weight stand in the order in which the
\* row set first lists them.
C11_TopGenresRanked == pc = "done" => RankedTopGenres(topGenres, RowsInRange)

\* more than ten genres, of which the ten kept are tied and one tied genre
\* is left out, and a heavier genre listed later stands first
C11_Witness ==
    /\ pc = "done"
    /\ Len(topGenres) = 10
    /\ Cardinality(SetOf(Occurrences(RowsInRange))) > 10
    /\ \E i \in 1..9 :
          TotalWeight(topGenres[i], RowsInRange) = TotalWeight(topGenres[i + 1], RowsInRange)
    /\ FirstSeen(topGenres[1], Occurrences(RowsInRange)) > 1

\* the indices of the commas of s, with 0 before and Len(s) + 1 after them
Cuts(s) ==
    <<0>> \o SelectSeq([i \in 1..Len(s) |-> i], LAMBDA i: s[i] = ",") \o <<Len(s) + 1>>

\* the comma-separated tokens of s
Tokens(s) == [k \in 1..(Len(Cuts(s)) - 1) |-> SubSeq(s, Cuts(s)[k] + 1, Cuts(s)[k + 1] - 1)]

\* token t trimmed, lower-cased and whitespace-collapsed: its words, with
\* one space wherever whitespace stood between two of them
KeptAtom(t, i) ==
    \/ ~IsSpace(t[i])
    \/ /\ i > 1 /\ ~IsSpace(t[i - 1])
       /\ \E j \in (i + 1)..Len(t) : ~IsSpace(t[j])

Normalized(t) ==
    LET kept == SelectSeq([i \in 1..Len(t) |-> i], LAMBDA i: KeptAtom(t, i))
    IN  [j \in 1..Len(kept) |-> IF IsSpace(t[kept[j]]) THEN " " ELSE toLowerCase(<<t[kept[j]]>>)[1]]

Placeholders ==
    {<<"n/a">>, <<"na">>, <<"none">>, <<"unknown">>, <<"null">>, <<"undefined">>, <<>>}

ClaimedGenres(s) ==
    SelectSeq([k \in 1..Len(Tokens(s)) |-> Normalized(Tokens(s)[k])],
              LAMBDA t: t \notin Placeholders)

\* C17: for the genre string of every row, parseGenres returns the
\* comma-separated tokens in their order, each trimmed, lower-cased and
\* whitespace-collapsed, without the tokens equal to n/a, na, none,
\* unknown, null, undefined or the empty string and with every other
\* token, repeated ones included.
C17_ParseGenres ==
    pc = "done" =>
        \A i \in 1..Len(rows) :
            parseGenres(Field(rows[i], "artist_genres"))
                = ClaimedGenres(Field(rows[i], "artist_genres"))

\* a row with a repeated genre, a row whose placeholders are all dropped
\* and a row that keeps a token containing a placeholder word
C17_Witness ==
    /\ pc = "done"
    /\ \E i, j, k \in 1..Len(rows) :
          /\ GenresOfRow(rows[i]) = <<<<"rock">>, <<"pop">>, <<"rock">>>>
          /\ GenresOfRow(rows[j]) = <<>> /\ Len(Field(rows[j], "artist_genres")) > 3
          /\ GenresOfRow(rows[k]) = <<<<"rock">>, <<"none", " ", "pop">>, <<"pop">>>>
    /\ Len(topGenres) = 2

\* every cell holds the weighted count of its genre over the rows rs of its year
MatrixOver(cells, rs) ==
    \A i \in 1..Len(cells) :
        cells[i].count =
            TotalWeight(cells[i].genre, SelectSeq(rs, LAMBDA r: r.year = cells[i].year))

\* the rows of year y that the per-year loop visits
YearRows(y) == SelectSeq(RowsInRange, LAMBDA d: d.year = y)

InSetGenres(r) == SelectSeq(GenresOfRow(r), LAMBDA g: InSeq(g, topGenres))

\* every parsed genre of r lies outside topGenres (r has parsed genres)
AllOutside(r) == Len(GenresOfRow(r)) > 0 /\ Len(InSetGenres(r)) = 0

\* r lists a genre in topGenres together with a genre outside it
Mixed(r) == Len(InSetGenres(r)) > 0 /\ Len(InSetGenres(r)) < Len(GenresOfRow(r))

RECURSIVE SumCells(_, _)
SumCells(y, gs) ==
    IF gs = <<>> THEN Num(0) ELSE RAdd(Cell(y, Head(gs)), SumCells(y, Tail(gs)))

\* what the i-th row of year y adds to the counts of that year
AddsToCell(y, i, g) ==
    LET before == yearCountsOf(<<>>, SubSeq(YearRows(y), 1, i - 1), topGenres)
        after == addRowTopGenres(before, YearRows(y)[i], topGenres)
    IN  RSub(mapGet(after, g), mapGet(before, g))

YearsWithRows == { RowsInRange[i].year : i \in 1..Len(RowsInRange) }

\* C21: in the per-year matrix a row whose parsed genres are all outside
\* topGenres adds nothing to any cell, a row with k parsed genres adds 1/k
\* per occurrence to the cells of its genres that are in topGenres (k counts
\* all its parsed genres), and the cells of one year sum to at most the
\* number of rows of that year.
C21_MatrixWeights ==
    pc = "done" =>
        \A y \in YearsWithRows :
            /\ \A i \in 1..Len(YearRows(y)) :
                  LET r == YearRows(y)[i]
                      k == Len(GenresOfRow(r))
                  IN  \A g \in SetOf(topGenres) :
                          AddsToCell(y, i, g) =
                              (IF k = 0 THEN Num(0) ELSE Frac(CountOf(g, GenresOfRow(r)), k))
            /\ \A g \in SetOf(topGenres) : Cell(y, g) = TotalWeight(g, YearRows(y))
            /\ RLe(SumCells(y, topGenres), Num(Len(YearRows(y))))

\* more than ten genres: a row listing only genres outside topGenres, a
\* row listing eleven genres of which ten are in it, and a year whose cells
\* sum to less than its number of rows
C21_Witness ==
    /\ pc = "done"
    /\ Len(topGenres) = 10
    /\ \E i, j \in 1..Len(RowsInRange) :
          /\ AllOutside(RowsInRange[i])
          /\ Mixed(RowsInRange[j])
          /\ Len(GenresOfRow(RowsInRange[j])) = 11
          /\ Len(InSetGenres(RowsInRange[j])) = 10
    /\ \E y \in YearsWithRows : RLt(SumCells(y, topGenres), Num(Len(YearRows(y))))

\* C22 as claimed: a track that lists a genre outside topGenres together
\* with a genre in it contributes to no cell: the matrix holds the counts of
\* the other tracks only.
C22_MixedTracksExcluded ==
    pc = "done" => MatrixOver(byYearGenre, SelectSeq(RowsInRange, LAMBDA r: ~Mixed(r)))

\* C22 amended: a track that lists a genre outside topGenres together with
\* a genre in it is not excluded: it contributes 1/k (k its number of
\* parsed genres) per occurrence to the cell of its year and each of its
\* genres in topGenres, and nothing for its genres outside topGenres.
C22_MixedTracksCounted ==
    pc = "done" =>
        \A y \in YearsWithRows : \A i \in 1..Len(YearRows(y)) :
            LET r == YearRows(y)[i]
                gs == GenresOfRow(r)
            IN  Mixed(r) =>
                    /\ \A g \in SetOf(InSetGenres(r)) :
                          /\ AddsToCell(y, i, g) = Frac(CountOf(g, gs), Len(gs))
                          /\ RLe(Frac(CountOf(g, gs), Len(gs)), Cell(y, g))
                          /\ RLt(Num(0), Cell(y, g))
                    /\ \A g \in SetOf(gs) \ SetOf(topGenres) : CellIndexes(y, g) = {}

\* a track with eleven genres, ten of them top genres, is the only track of
\* its year and fills ten cells with 1/11
C22_Witness ==
    /\ pc = "done"
    /\ \E y \in YearsWithRows :
          /\ Len(YearRows(y)) = 1
          /\ Mixed(YearRows(y)[1])
          /\ \A g \in SetOf(topGenres) : Cell(y, g) = Frac(1, 11)

(***************************************************************************)
(* d3 helpers.                                                             *)
(***************************************************************************)
Undefined == <<>>

SeqMax(s) == CHOOSE x \in SetOf(s) : \A y \in SetOf(s) : y <= x
SeqMin(s) == CHOOSE x \in SetOf(s) : \A y \in SetOf(s) : x <= y

\* Array.prototype.sort(d3.ascending) on numbers
Equal(s, m) == SelectSeq(s, LAMBDA x: x = m)
Differing(s, m) == SelectSeq(s, LAMBDA x: x # m)

RECURSIVE sortAscending(_)
sortAscending(s) ==
    IF s = <<>> THEN <<>>
    ELSE Equal(s, SeqMin(s)) \o sortAscending(Differing(s, SeqMin(s)))

\* d3.quantile(values, p) for ascending values and 0 < p < 1, p = <<n, d>>:
\* undefined on an empty array, the minimum when n < 2, otherwise
\* value0 + (value1 - value0) * (i - i0) with i = (n - 1) * p, i0 = floor(i)
\* (position (n - 1) * p counts from 0; sequences count from 1)
quantile(values, p) ==
    IF Len(values) = 0 THEN Undefined
    ELSE IF Len(values) < 2 THEN Num(SeqMin(values))
    ELSE LET i == RMul(Num(Len(values) - 1), p)
             i0 == RFloor(i)
             value0 == Num(values[i0 + 1])
             value1 == Num(values[i0 + 2])
         IN  RAdd(value0, RMul(RSub(value1, value0), RSub(i, Num(i0))))

\* a ?? b
Coalesce(a, b) == IF a = Undefined THEN b ELSE a

(***************************************************************************)
(* (b) Top-N popularity scatter: drawScatterTilesTopN.                     *)
(***************************************************************************)
TOP_N == 500
ScatterMargin == [top |-> 10, right |-> 18, bottom |-> 46, left |-> 78]
\* the bounds of an empty colour scale
fallback_empty == [legendMin |-> Num(0), legendMax |-> Num(0)]

fallback == [legendMin |-> Num(0), legendMax |-> Num(1)]

isBlank(s) == Len(trim(s)) = 0

\* the five chained filters that build dataAll
passesBaseFilter(d) ==
    /\ isFinite(d.artist_followers) /\ d.artist_followers >= 1
    /\ isFinite(d.track_popularity)
    /\ isFinite(d.track_duration_min)
    /\ ~isBlank(Field(d, "track_name"))
    /\ ~isBlank(Field(d, "artist_name"))

PopsOf(s) == { s[i].track_popularity : i \in 1..Len(s) }
MaxPop(s) == CHOOSE x \in PopsOf(s) : \A y \in PopsOf(s) : y <= x

\* .sort((a, b) => b.track_popularity - a.track_popularity): stable, so the
\* rows of the highest popularity come first in their original order
WithPop(s, m) == SelectSeq(s, LAMBDA d: d.track_popularity = m)
WithoutPop(s, m) == SelectSeq(s, LAMBDA d: d.track_popularity # m)

RECURSIVE sortByPopularityDesc(_)
sortByPopularityDesc(s) ==
    IF s = <<>> THEN <<>>
    ELSE WithPop(s, MaxPop(s)) \o sortByPopularityDesc(WithoutPop(s, MaxPop(s)))

\* the first N rows in input order, without ranking them
selectTopN_unsorted(dataAll) == SubSeq(dataAll, 1, Min(TOP_N, Len(dataAll)))

\* dataAll.slice().sort(...).slice(0, Math.min(TOP_N, dataAll.length))
selectTopN(dataAll) ==
    SubSeq(sortByPopularityDesc(dataAll), 1, Min(TOP_N, Len(dataAll)))

\* data.map((d) => d.track_duration_min)
durationsOf(data) == [i \in 1..Len(data) |-> data[i].track_duration_min]

dursSortedOf(data) == sortAscending(SelectSeq(durationsOf(data), isFinite))

P03 == Frac(3, 100)
P97 == Frac(97, 100)

\* the legend taken from the quartiles instead of the 3rd/97th percentile
legendOf_quartiles(dursSorted) ==
    LET durLo == Coalesce(quantile(dursSorted, Frac(1, 4)), Num(0))
        durHi == Coalesce(quantile(dursSorted, Frac(3, 4)), Num(1))
    IN  [legendMin |-> RMin(durLo, durHi), legendMax |-> RMax(durLo, durHi)]

legendOf(dursSorted) ==
    LET durLo == Coalesce(quantile(dursSorted, P03),
                          IF dursSorted = <<>> THEN Num(0) ELSE Num(SeqMin(dursSorted)))
        durHi == Coalesce(quantile(dursSorted, P97),
                          IF dursSorted = <<>> THEN Num(1) ELSE Num(SeqMax(dursSorted)))
    IN  [legendMin |-> RMin(durLo, durHi), legendMax |-> RMax(durLo, durHi)]

\* the v2DurExtent memo over filteredRows
v2DurExtentOf(filteredRows) ==
    LET dataAll == SelectSeq(filteredRows, passesBaseFilter)
    IN  IF Len(dataAll) = 0 THEN [lo |-> Num(0), hi |-> Num(1)]
        ELSE LET l == legendOf(dursSortedOf(selectTopN(dataAll)))
             IN  [lo |-> l.legendMin, hi |-> l.legendMax]

\* the clamp effect applied to the threshold cur (the extent of cleaned
\* rows is finite); the threshold handed to every run with lo # hi is
\* Math.max(lo, Math.min(hi, cur))
clampEffect(ext, cur) ==
    IF ext.lo = ext.hi THEN cur ELSE RMax(ext.lo, RMin(ext.hi, cur))

innerW(size) == Max(0, size.width - ScatterMargin.left - ScatterMargin.right)
innerH(size) == Max(0, size.height - ScatterMargin.top - ScatterMargin.bottom)

\* what drawScatterTilesTopN does: touched = FALSE when it returns before
\* it reaches the dots, dots = the rows joined to the circles, legend = the
\* returned bounds
drawScatterTilesTopN(size, rs) ==
    IF innerW(size) <= 0 \/ innerH(size) <= 0
    THEN [touched |-> FALSE, dots |-> <<>>, legend |-> fallback]
    ELSE LET dataAll == SelectSeq(rs, passesBaseFilter)
         IN  IF Len(dataAll) = 0
             THEN [touched |-> TRUE, dots |-> <<>>, legend |-> fallback]
             ELSE LET data == selectTopN(dataAll)
                  IN  [touched |-> TRUE, dots |-> data, legend |-> legendOf(dursSortedOf(data))]

(***************************************************************************)
(* SpecScatter: the scatter draw effect applied to bounded row sets and    *)
(* to generated row sets long enough to reach TOP_N.                       *)
(***************************************************************************)
ScatterRowPool ==
    { [BaseRow EXCEPT !.track_id = 1, !.track_popularity = 80, !.track_duration_min = 3],
      [BaseRow EXCEPT !.track_id = 2, !.track_popularity = 60, !.track_duration_min = 4],
      [BaseRow EXCEPT !.track_id = 3, !.track_popularity = 80, !.track_duration_min = 5],
      [BaseRow EXCEPT !.track_id = 4, !.track_popularity = 90, !.artist_followers = 0],
      [BaseRow EXCEPT !.track_id = 5, !.track_popularity = NaN],
      [BaseRow EXCEPT !.track_id = 6, !.track_popularity = 95, !.track_duration_min = NaN],
      [BaseRow EXCEPT !.track_id = 7, !.track_popularity = 99, !.track_name = <<" ", "\t">>],
      Without([BaseRow EXCEPT !.track_id = 8, !.track_popularity = 99], "artist_name"),
      [BaseRow EXCEPT !.track_id = 9, !.track_popularity = 40, !.artist_followers = 1],
      [BaseRow EXCEPT !.track_id = 10, !.track_popularity = 70, !.artist_followers = NaN] }

\* generated row i of pattern pat in a row set of length n:
\*   "ties"     three popularity levels, two durations, every 7th row
\*              without followers
\*   "outliers" equal popularity, one short first and one long last track
\*   "edges"    equal popularity, floor(0.03 (n - 1)) short tracks first and
\*              as many long tracks last
\*   "wide"     as "edges" with one more short and one more long track
EdgeCount(n, pat) == (3 * (n - 1)) \div 100 + (IF pat = "wide" THEN 1 ELSE 0)

GenRow(i, n, pat) ==
    CASE pat = "ties" ->
            [BaseRow EXCEPT !.track_id = i,
                            !.track_popularity = 50 + (i % 3),
                            !.track_duration_min = 3 + (i % 2),
                            !.artist_followers = IF i % 7 = 0 THEN 0 ELSE 1000]
      [] pat = "outliers" ->
            [BaseRow EXCEPT !.track_id = i,
                            !.track_duration_min = IF i = 1 THEN 1 ELSE IF i = n THEN 9 ELSE 3]
      [] OTHER ->
            [BaseRow EXCEPT !.track_id = i,
                            !.track_duration_min =
                                IF i <= EdgeCount(n, pat) THEN 1
                                ELSE IF i > n - EdgeCount(n, pat) THEN 9 ELSE 3]

GenPatterns == {"ties", "outliers", "edges", "wide"}

GenRows(n, pat) == [i \in 1..n |-> GenRow(i, n, pat)]

GenSizes == {2, 5, 34, 35, 36, 68, 101, 102, TOP_N - 1, TOP_N, TOP_N + 1, TOP_N + 2, TOP_N + 90}

ScatterSizes ==
    { [width |-> 0, height |-> 0], [width |-> 90, height |-> 400], [width |-> 600, height |-> 400] }

InitScatter ==
    /\ rows \in SeqsUpTo(ScatterRowPool, MaxScatterRows)
                  \cup { GenRows(n, pat) : n \in GenSizes, pat \in GenPatterns }
    /\ v2Size \in ScatterSizes
    /\ v3Size = [width |-> 600, height |-> 400]
    /\ pc = "pending"
    /\ topGenres = <<>>
    /\ byYearGenre = <<>>
    /\ v2Data = <<>>
    /\ v2LegendMin = Num(0)
    /\ v2LegendMax = Num(1)
    /\ v3Summary = <<>>
    /\ LoadedNoFilter
    /\ durThreshold = clampEffect(v2DurExtentOf(rows), Num(1))

\* the v2 draw effect: skipped while the container has no size, otherwise
\* draws and stores the returned legend bounds (no filter is active, so the
\* rows it passes are the whole row set)
DrawScatter ==
    /\ pc = "pending"
    /\ IF v2Size.width = 0 \/ v2Size.height = 0
       THEN UNCHANGED v2Vars
       ELSE LET r == drawScatterTilesTopN(v2Size, rows)
            IN  /\ v2Data' = IF r.touched THEN r.dots ELSE v2Data
                /\ v2LegendMin' = r.legend.legendMin
                /\ v2LegendMax' = r.legend.legendMax
    /\ pc' = "done"
    /\ UNCHANGED <<rows, v1Vars, v3Vars, sizeVars, yearRange, loadVars, uiVars, modalVars>>

NextScatter == DrawScatter

SpecScatter == InitScatter /\ [][NextScatter]_vars

(***************************************************************************)
(* Properties of the top-N scatter.                                        *)
(***************************************************************************)
\* the scatter effect has run and the container was large enough to draw
ScatterDrawn ==
    /\ pc = "done"
    /\ v2Size.width > 78 + 18
    /\ v2Size.height > 10 + 46

HasVisibleText(r, f) ==
    f \in DOMAIN r /\ \E i \in 1..Len(r[f]) : r[f][i] \notin {" ", "\t"}

\* the base filter as the claim states it
ClaimedBaseFilter(d) ==
    /\ d.artist_followers # NaN /\ d.artist_followers >= 1
    /\ d.track_popularity # NaN
    /\ d.track_duration_min # NaN
    /\ HasVisibleText(d, "track_name")
    /\ HasVisibleText(d, "artist_name")

IsPrefix(a, b) == Len(a) <= Len(b) /\ a = SubSeq(b, 1, Len(a))

SelectionIsTopN(selected, passing) ==
    /\ Len(selected) = Min(500, Len(passing))
    /\ \A i \in 1..Len(selected) : ClaimedBaseFilter(selected[i])
    /\ \A i \in 1..(Len(selected) - 1) :
          selected[i].track_popularity >= selected[i + 1].track_popularity
    /\ \A p \in PopsOf(passing) : IsPrefix(WithPop(selected, p), WithPop(passing, p))
    /\ \A p, q \in PopsOf(passing) :
          (p > q /\ WithPop(selected, q) # <<>>) => WithPop(selected, p) = WithPop(passing, p)

\* C4: the selected subset has length min(500, number of rows passing the
\* base filter), holds only passing rows, is sorted by popularity
\* descending with equal popularity in original order (per popularity the
\* selected rows are the first ones of the input), and no excluded passing
\* row is more popular than an included one.
C4_TopNSelection ==
    ScatterDrawn => SelectionIsTopN(v2Data, SelectSeq(rows, ClaimedBaseFilter))

C4_Witness ==
    /\ ScatterDrawn
    /\ Len(v2Data) = 500
    /\ Len(SelectSeq(rows, ClaimedBaseFilter)) > 500
    /\ Len(rows) > Len(SelectSeq(rows, ClaimedBaseFilter))
    /\ \E i \in 1..Len(rows) :
          /\ ClaimedBaseFilter(rows[i])
          /\ rows[i].track_popularity = v2Data[500].track_popularity
          /\ \A j \in 1..500 : v2Data[j].track_id # rows[i].track_id

DursOf(data) == { data[i].track_duration_min : i \in 1..Len(data) }
CountBelow(data, c) == Cardinality({ i \in 1..Len(data) : RLt(Num(data[i].track_duration_min), c) })
CountAbove(data, c) == Cardinality({ i \in 1..Len(data) : RLt(c, Num(data[i].track_duration_min)) })

\* C5 as claimed: legendMin <= legendMax, and legendMin = legendMax only
\* when all durations of the selected subset are identical.
C5_EqualOnlyIfIdentical ==
    pc = "done" =>
        /\ RLe(v2LegendMin, v2LegendMax)
        /\ v2LegendMin = v2LegendMax => Cardinality(DursOf(v2Data)) = 1

\* C5 amended: legendMin <= legendMax, and legendMin = legendMax only when
\* the selected durations are identical apart from at most
\* floor(0.03 * (n - 1)) shorter and at most floor(0.03 * (n - 1)) longer
\* ones, n being the size of the selected subset.
C5_EqualOnlyIfIdenticalWithinPercentiles ==
    pc = "done" =>
        /\ RLe(v2LegendMin, v2LegendMax)
        /\ v2LegendMin = v2LegendMax =>
              /\ Len(v2Data) >= 1
              /\ CountBelow(v2Data, v2LegendMin) <= (3 * (Len(v2Data) - 1)) \div 100
              /\ CountAbove(v2Data, v2LegendMin) <= (3 * (Len(v2Data) - 1)) \div 100

\* equal bounds although three short and three long tracks differ from the
\* rest: as many as 101 selected rows allow
C5_Witness ==
    /\ ScatterDrawn
    /\ v2LegendMin = v2LegendMax
    /\ Len(v2Data) = 101
    /\ Cardinality(DursOf(v2Data)) = 3
    /\ CountBelow(v2Data, v2LegendMin) = 3
    /\ CountAbove(v2Data, v2LegendMin) = 3

(***************************************************************************)
(* (c) Popularity by album type: the byTypePopFiltered memo and the        *)
(* summary of drawBoxplotPopularity.                                       *)
(***************************************************************************)
maxPts == 180
BoxMargin == [top |-> 18, right |-> 16, bottom |-> 44, left |-> 78]
TypeOrder == <<"album", "single", "compilation", "other">>
BoxOrder == <<"album", "single", "compilation">>

\* order.indexOf(t), counted from 0, -1 when absent
indexOf(order, t) ==
    IF InSeq(t, order) THEN (CHOOSE i \in 1..Len(order) : order[i] = t) - 1 ELSE -1

TypesOf(rs) == { rs[i].album_type : i \in 1..Len(rs) }
FirstIndex(rs, t) == CHOOSE i \in 1..Len(rs) : rs[i].album_type = t /\ \A j \in 1..(i - 1) : rs[j].album_type # t

\* the keys of d3.rollups: the album types in order of first appearance
RECURSIVE groupKeys(_, _)
groupKeys(rs, types) ==
    IF types = {} THEN <<>>
    ELSE LET t == CHOOSE x \in types : \A y \in types : FirstIndex(rs, x) <= FirstIndex(rs, y)
         IN  <<t>> \o groupKeys(rs, types \ {t})

clamp100(x) == Max(0, Min(100, x))

\* the reducer of the rollup: finite popularities, clamped to [0, 100], ascending
popsOf(v) ==
    LET finite == SelectSeq([i \in 1..Len(v) |-> v[i].track_popularity], isFinite)
    IN  sortAscending([i \in 1..Len(finite) |-> clamp100(finite[i])])

groupOf(rs, t) ==
    LET pops == popsOf(SelectSeq(rs, LAMBDA d: d.album_type = t))
    IN  [album_type |-> t, pops |-> pops, n |-> Len(pops)]

RECURSIVE rollups(_, _)
rollups(rs, keys) ==
    IF keys = <<>> THEN <<>>
    ELSE <<groupOf(rs, Head(keys))>> \o rollups(rs, Tail(keys))

\* byTypePop.sort((a, b) => order.indexOf(a.album_type) - order.indexOf(b.album_type))
RECURSIVE insertByTypeOrder(_, _)
insertByTypeOrder(sorted, e) ==
    IF sorted = <<>> THEN <<e>>
    ELSE IF indexOf(TypeOrder, Head(sorted).album_type) <= indexOf(TypeOrder, e.album_type)
         THEN <<Head(sorted)>> \o insertByTypeOrder(Tail(sorted), e)
         ELSE <<e>> \o sorted

RECURSIVE sortByTypeOrder(_, _)
sortByTypeOrder(sorted, s) ==
    IF s = <<>> THEN sorted
    ELSE sortByTypeOrder(insertByTypeOrder(sorted, Head(s)), Tail(s))

byTypePopFiltered(filteredRows) ==
    LET rowsInRange == SelectSeq(filteredRows, inYearExtent)
    IN  sortByTypeOrder(<<>>, rollups(rowsInRange, groupKeys(rowsInRange, TypesOf(rowsInRange))))

\* v.filter((_, i) => i % step === 0)
everyNth(v, step) ==
    LET kept == SelectSeq([i \in 1..Len(v) |-> i - 1], LAMBDA i: i % step = 0)
    IN  [j \in 1..Len(kept) |-> v[kept[j] + 1]]

sampleStep(n) == Max(1, n \div maxPts)

Q25 == Frac(1, 4)
Q50 == Frac(1, 2)
Q75 == Frac(3, 4)
OneAndHalf == Frac(3, 2)

\* the whiskers drawn to the fences themselves
whiskers_fences(v, q1, q3) ==
    LET iqr == RSub(q3, q1)
    IN  [lo |-> RSub(q1, RMul(OneAndHalf, iqr)), hi |-> RAdd(q3, RMul(OneAndHalf, iqr))]

whiskers(v, q1, q3) ==
    LET iqr == RSub(q3, q1)
        loFence == RSub(q1, RMul(OneAndHalf, iqr))
        hiFence == RAdd(q3, RMul(OneAndHalf, iqr))
        inLo == SelectSeq(v, LAMBDA x: RLe(loFence, Num(x)))
        inHi == SelectSeq(v, LAMBDA x: RLe(Num(x), hiFence))
    IN  [lo |-> IF inLo = <<>> THEN Num(v[1]) ELSE Num(SeqMin(inLo)),
         hi |-> IF inHi = <<>> THEN Num(v[Len(v)]) ELSE Num(SeqMax(inHi))]

\* the median taken as the middle element, without interpolation
summaryOf_middleElement(d) ==
    LET v == d.pops
        q1 == Coalesce(quantile(v, Q25), Num(v[1]))
        med == Num(v[(Len(v) \div 2) + 1])
        q3 == Coalesce(quantile(v, Q75), Num(v[Len(v)]))
        w == whiskers(v, q1, q3)
    IN  [album_type |-> d.album_type, n |-> Len(v), q1 |-> q1, med |-> med, q3 |-> q3,
         lo |-> w.lo, hi |-> w.hi, sample |-> everyNth(v, sampleStep(Len(v)))]

\* summary of one drawn group d (d.n > 0)
summaryOf(d) ==
    LET v == d.pops
        q1 == Coalesce(quantile(v, Q25), Num(v[1]))
        med == Coalesce(quantile(v, Q50), Num(v[(Len(v) \div 2) + 1]))
        q3 == Coalesce(quantile(v, Q75), Num(v[Len(v)]))
        w == whiskers(v, q1, q3)
    IN  [album_type |-> d.album_type, n |-> Len(v), q1 |-> q1, med |-> med, q3 |-> q3,
         lo |-> w.lo, hi |-> w.hi, sample |-> everyNth(v, sampleStep(Len(v)))]

\* order.map((k) => byType.get(k) ?? {album_type: k, pops: [], n: 0}).filter((d) => d.n > 0)
RECURSIVE drawnGroups(_, _)
drawnGroups(stats, order) ==
    IF order = <<>> THEN <<>>
    ELSE LET found == SelectSeq(stats, LAMBDA d: d.album_type = Head(order))
             d == IF found = <<>> THEN [album_type |-> Head(order), pops |-> <<>>, n |-> 0]
                  ELSE found[Len(found)]
         IN  (IF d.n > 0 THEN <<d>> ELSE <<>>) \o drawnGroups(stats, Tail(order))

RECURSIVE summaries(_)
summaries(data) ==
    IF data = <<>> THEN <<>> ELSE <<summaryOf(Head(data))>> \o summaries(Tail(data))

boxInnerW(size) == Max(0, size.width - BoxMargin.left - BoxMargin.right)
boxInnerH(size) == Max(0, size.height - BoxMargin.top - BoxMargin.bottom)

\* what drawBoxplotPopularity draws: touched = FALSE when it returns before
\* it computes the summary
drawBoxplotPopularity(size, stats) ==
    IF boxInnerW(size) <= 0 \/ boxInnerH(size) <= 0
    THEN [touched |-> FALSE, summary |-> <<>>]
    ELSE [touched |-> TRUE, summary |-> summaries(drawnGroups(stats, BoxOrder))]

(***************************************************************************)
(* SpecBox: the box-plot draw effect applied to bounded row sets and to    *)
(* generated groups around the sample limit.                               *)
(***************************************************************************)
BoxRow(t, p) == [BaseRow EXCEPT !.album_type = t, !.track_popularity = p]

BoxRowPool ==
    { BoxRow("album", 10), BoxRow("album", 20), BoxRow("album", 40), BoxRow("album", 120),
      BoxRow("single", 20), BoxRow("other", 10) }

QuartileScenario ==
    << BoxRow("album", 30), BoxRow("album", 10), BoxRow("album", 40), BoxRow("album", 20) >>

\* n rows of one album type with popularities 0, 10, 20, 30 in rotation,
\* every 50th one an outlier above the scale
GenBoxRows(n, t) ==
    [i \in 1..n |-> BoxRow(t, IF i % 50 = 0 THEN 130 ELSE (i % 4) * 10)]

GenBoxSizes ==
    {maxPts - 1, maxPts, maxPts + 1, 2 * maxPts - 1, 2 * maxPts, 2 * maxPts + 1, 3 * maxPts + 7}

BoxSizes ==
    { [width |-> 0, height |-> 0], [width |-> 90, height |-> 300], [width |-> 600, height |-> 400] }

InitBox ==
    /\ rows \in SeqsUpTo(BoxRowPool, MaxBoxRows)
                  \cup {QuartileScenario}
                  \cup { GenBoxRows(n, t) : n \in GenBoxSizes, t \in {"album", "single"} }
                  \cup { GenBoxRows(n, "album") \o GenBoxRows(maxPts + 1, "compilation") : n \in GenBoxSizes }
    /\ v3Size \in BoxSizes
    /\ v2Size = [width |-> 600, height |-> 400]
    /\ pc = "pending"
    /\ topGenres = <<>>
    /\ byYearGenre = <<>>
    /\ v2Data = <<>>
    /\ v2LegendMin = Num(0)
    /\ v2LegendMax = Num(1)
    /\ v3Summary = <<>>
    /\ LoadedNoFilter
    \* every row lasts 3 minutes: the threshold is where the mount left it
    /\ durThreshold = Num(1)

\* the v3 draw effect: skipped while the container has no size (no year
\* range is selected, so filteredRows is the whole row set)
DrawBoxplot ==
    /\ pc = "pending"
    /\ IF v3Size.width = 0 \/ v3Size.height = 0
       THEN UNCHANGED v3Vars
       ELSE LET r == drawBoxplotPopularity(v3Size, byTypePopFiltered(rows))
            IN  v3Summary' = IF r.touched THEN r.summary ELSE v3Summary
    /\ pc' = "done"
    /\ UNCHANGED <<rows, v1Vars, v2Vars, sizeVars, yearRange, loadVars, uiVars, modalVars>>

NextBox == DrawBoxplot

SpecBox == InitBox /\ [][NextBox]_vars

(***************************************************************************)
(* Properties of the box-plot summary.                                     *)
(***************************************************************************)
BoxDrawn ==
    /\ pc = "done"
    /\ v3Size.width > 78 + 16
    /\ v3Size.height > 18 + 44

\* the popularity array of album type t: clamped, ascending
PopsOfType(t) == popsOf(SelectSeq(RowsInRange, LAMBDA d: d.album_type = t))

\* the linear-interpolation quantile at position (n - 1) * a / b of the
\* ascending array v, positions counted from 0
Interpolated(v, a, b) ==
    LET fl == ((Len(v) - 1) * a) \div b
        fr == Frac((Len(v) - 1) * a - fl * b, b)
    IN  IF fr = Num(0) THEN Num(v[fl + 1])
        ELSE RAdd(Num(v[fl + 1]), RMul(fr, Num(v[fl + 2] - v[fl + 1])))

QuartilesInterpolated(s, v) ==
    /\ s.q1 = Interpolated(v, 1, 4)
    /\ s.med = Interpolated(v, 1, 2)
    /\ s.q3 = Interpolated(v, 3, 4)
    /\ v = <<10, 20, 30, 40>> => (s.q1 = Frac(35, 2) /\ s.med = Num(25) /\ s.q3 = Frac(65, 2))

\* C6: for every non-empty ascending popularity array, q1, median and q3 of
\* the summary are the linear-interpolation quantiles at position
\* (n - 1) * p for p = 0.25, 0.5, 0.75; [10,20,30,40] gives 17.5, 25, 32.5.
C6_QuartilesInterpolated ==
    pc = "done" =>
        \A k \in 1..Len(v3Summary) :
            /\ v3Summary[k].n = Len(PopsOfType(v3Summary[k].album_type))
            /\ QuartilesInterpolated(v3Summary[k], PopsOfType(v3Summary[k].album_type))

C6_Witness ==
    /\ BoxDrawn
    /\ \E k \in 1..Len(v3Summary) :
          /\ PopsOfType(v3Summary[k].album_type) = <<10, 20, 30, 40>>
          /\ v3Summary[k].q1 = Frac(35, 2)
          /\ v3Summary[k].med = Num(25)

IsElement(x, v) == \E i \in 1..Len(v) : Num(v[i]) = x

\* C7: for every non-empty album-type group the whisker endpoints lo and hi
\* are each an element of the group's popularity array.
C7_WhiskersAreData ==
    pc = "done" =>
        \A k \in 1..Len(v3Summary) :
            /\ IsElement(v3Summary[k].lo, PopsOfType(v3Summary[k].album_type))
            /\ IsElement(v3Summary[k].hi, PopsOfType(v3Summary[k].album_type))

\* a group whose largest value lies beyond the high fence
C7_Witness ==
    /\ BoxDrawn
    /\ \E k \in 1..Len(v3Summary) :
          /\ v3Summary[k].n >= 4
          /\ RLt(v3Summary[k].hi, Num(SeqMax(PopsOfType(v3Summary[k].album_type))))
          /\ RLt(v3Summary[k].q1, v3Summary[k].q3)

\* C8 as claimed: for every group size n the overlay sample has at most
\* 180 points.
C8_SampleAtMost180 ==
    pc = "done" => \A k \in 1..Len(v3Summary) : Len(v3Summary[k].sample) <= 180

\* the elements of v at indices 0, st, 2 st, ... (counted from 0)
StrideSample(v, st) == [j \in 1..((Len(v) + st - 1) \div st) |-> v[(j - 1) * st + 1]]

\* C9 as claimed: the sample of a group of n values is the elements at
\* indices 0, s, 2s, ... with s = ceil(n / 180).
C9_StrideIsCeiling ==
    pc = "done" =>
        \A k \in 1..Len(v3Summary) :
            v3Summary[k].sample =
                StrideSample(PopsOfType(v3Summary[k].album_type), (v3Summary[k].n + 179) \div 180)

SummaryFields == {"album_type", "q1", "med", "q3", "lo", "hi", "n", "sample"}

\* C20 as claimed: the drawn distribution holds exactly one summary
\* {q1, median, q3, lowWhisker, highWhisker, n, sample} for every album
\* type with at least one row in the filtered row set, other included, and
\* none for an album type without rows.
C20_SummaryPerAlbumType ==
    BoxDrawn =>
        /\ { v3Summary[k].album_type : k \in 1..Len(v3Summary) } = TypesOf(rows)
        /\ Len(v3Summary) = Cardinality(TypesOf(rows))
        /\ \A k \in 1..Len(v3Summary) : DOMAIN v3Summary[k] = SummaryFields

\* C23 as claimed: for every non-empty popularity array with values in
\* [0, 100] the summary is ordered lowWhisker <= q1 <= median <= q3 <=
\* highWhisker, so the whisker line from lo to hi spans the box.
C23_SummaryOrdered ==
    pc = "done" =>
        \A k \in 1..Len(v3Summary) :
            /\ v3Summary[k].n > 0
            /\ RLe(v3Summary[k].lo, v3Summary[k].q1)
            /\ RLe(v3Summary[k].q1, v3Summary[k].med)
            /\ RLe(v3Summary[k].med, v3Summary[k].q3)
            /\ RLe(v3Summary[k].q3, v3Summary[k].hi)

(***************************************************************************)
(* (d) The load effect: the row mapper handed to d3.csv and the cleaning   *)
(* filter.  A CSV record is a record of strings with one field per column  *)
(* of the file; a numeric string is a sequence of one-character atoms.     *)
(***************************************************************************)
Digits == <<"0", "1", "2", "3", "4", "5", "6", "7", "8", "9">>

IsDigit(c) == InSeq(c, Digits)
DigitValue(c) == (CHOOSE i \in 1..Len(Digits) : Digits[i] = c) - 1

RECURSIVE DecimalValue(_, _)
DecimalValue(acc, s) ==
    IF s = <<>> THEN acc ELSE DecimalValue(10 * acc + DigitValue(Head(s)), Tail(s))

\* +s for a string s: surrounding whitespace is ignored, the empty string
\* is 0, a run of digits is its value, any other string of the model is NaN
toNumber(s) ==
    LET t == trim(s)
    IN  IF t = <<>> THEN 0
        ELSE IF \A i \in 1..Len(t) : IsDigit(t[i]) THEN DecimalValue(0, t)
        ELSE NaN

\* +d.f: undefined (the file has no column f) is NaN
plus(d, f) == IF f \in DOMAIN d THEN toNumber(d[f]) ELSE NaN

\* String(dateStr).slice(0, 4)
slice4(s) == SubSeq(s, 1, Min(4, Len(s)))

\* an undefined and an empty dateStr are both falsy
parseYear(dateStr) ==
    IF dateStr = <<>> THEN NaN
    ELSE LET y == toNumber(slice4(dateStr))
         IN  IF isFinite(y) THEN y ELSE NaN

\* a one-word string is its word
asWord(v) == IF Len(v) = 1 THEN v[1] ELSE v

normalizeAlbumType(s) ==
    LET v == toLowerCase(trim(s))
    IN  IF v = <<>> THEN "other" ELSE asWord(v)

\* x || NaN
orNaN(x) == IF x = 0 \/ x = NaN THEN NaN ELSE x

\* x / 60000
div60000(x) ==
    IF x = NaN THEN NaN
    ELSE IF x % 60000 = 0 THEN x \div 60000 ELSE Frac(x, 60000)

yearOf(d) ==
    IF isFinite(plus(d, "album_release_year"))
    THEN plus(d, "album_release_year")
    ELSE parseYear(Field(d, "album_release_date"))

durationMinOf(d) ==
    IF isFinite(plus(d, "track_duration_min"))
    THEN plus(d, "track_duration_min")
    ELSE div60000(orNaN(plus(d, "track_duration_ms")))

CopiedFields == {"track_id", "track_name", "artist_name", "artist_genres"}
ComputedFields ==
    {"track_popularity", "artist_popularity", "artist_followers", "album_type", "year",
     "track_duration_min"}

\* the row conversion handed to d3.csv; a copied field of a missing column
\* stays undefined
mapRow(d) ==
    [f \in (CopiedFields \cap DOMAIN d) \cup ComputedFields |->
        CASE f = "track_popularity" -> plus(d, "track_popularity")
          [] f = "artist_popularity" -> plus(d, "artist_popularity")
          [] f = "artist_followers" -> plus(d, "artist_followers")
          [] f = "album_type" -> normalizeAlbumType(Field(d, "album_type"))
          [] f = "year" -> yearOf(d)
          [] f = "track_duration_min" -> durationMinOf(d)
          [] OTHER -> d[f]]

mapRows(records) == [i \in 1..Len(records) |-> mapRow(records[i])]

\* the cleaning filter that keeps every mapped record
isClean_all(d) == TRUE

isClean(d) ==
    /\ isFinite(d.year)
    /\ isFinite(d.track_popularity)
    /\ isFinite(d.artist_followers)
    /\ isFinite(d.track_duration_min)

cleaned(mapped) == SelectSeq(mapped, isClean)

(***************************************************************************)
(* The App component: mount, the settling of the load, the year selector,  *)
(* and the render that follows every state change.  The duration filter    *)
(* and the album-type selection stay at their initial values ("all", no    *)
(* type), so v2FilteredRows is filteredRows.                               *)
(***************************************************************************)
\* the filteredRows memo
filteredRowsOf(rs, yr) ==
    IF yr = Null THEN rs
    ELSE SelectSeq(rs, LAMBDA r: r.year >= yr[1] /\ r.year <= yr[2])

\* the filter state of one render
Filters ==
    [yearRange |-> yearRange, durMode |-> durMode, durThreshold |-> durThreshold,
     showDots |-> showV3Dots, hoverType |-> v3HoverType, lockedType |-> v3LockedType]

\* v3LockedType ?? v3HoverType
selectedAlbumTypeOf(f) == IF f.lockedType # NullType THEN f.lockedType ELSE f.hoverType

\* the v2FilteredRows memo (the threshold is always finite)
v2FilteredRowsOf(filteredRows, f) ==
    LET base ==
            IF f.durMode = "all" THEN filteredRows
            ELSE IF f.durMode = "ge"
                 THEN SelectSeq(filteredRows,
                                LAMBDA r: RLe(f.durThreshold, Num(r.track_duration_min)))
                 ELSE SelectSeq(filteredRows,
                                LAMBDA r: RLe(Num(r.track_duration_min), f.durThreshold))
    IN  IF selectedAlbumTypeOf(f) # NullType
        THEN SelectSeq(base, LAMBDA r: r.album_type = selectedAlbumTypeOf(f))
        ELSE base

\* the memos whose dependencies include rows
RowMemos == {"genreMemo", "filteredRows", "v2DurExtent", "v2FilteredRows", "byTypePopFiltered"}

\* the memos that depend on filteredRows, hence on yearRange
FilterMemos == {"filteredRows", "v2DurExtent", "v2FilteredRows", "byTypePopFiltered"}

\* the memo that depends on the duration filter and the selected album type
SelectionMemos == {"v2FilteredRows"}

\* a draw effect that draws whatever loading is
drawEffectRuns_ungated(ld, size) == size.width # 0 /\ size.height # 0

\* the three returns that open every draw effect: loading, (the svg element
\* exists once mounted,) a container without size
drawEffectRuns(ld, size) == ~ld /\ size.width # 0 /\ size.height # 0

\* the v2 draw effect for the new rows rs, loading flag ld and filters f
ScatterEffect(rs, ld, f) ==
    IF ~drawEffectRuns(ld, v2Size)
    THEN UNCHANGED v2Vars
    ELSE LET r == drawScatterTilesTopN(v2Size, v2FilteredRowsOf(filteredRowsOf(rs, f.yearRange), f))
         IN  /\ v2Data' = IF r.touched THEN r.dots ELSE v2Data
             /\ v2LegendMin' = r.legend.legendMin
             /\ v2LegendMax' = r.legend.legendMax

\* the v3 draw effect; the draw binds the handlers of the boxes to its opts
BoxplotEffect(rs, ld, f) ==
    IF ~drawEffectRuns(ld, v3Size)
    THEN UNCHANGED <<v3Vars, boxOpts>>
    ELSE LET r == drawBoxplotPopularity(v3Size, byTypePopFiltered(filteredRowsOf(rs, f.yearRange)))
         IN  /\ v3Summary' = IF r.touched THEN r.summary ELSE v3Summary
             /\ boxOpts' = IF r.touched THEN [lockedType |-> f.lockedType] ELSE boxOpts

DrawFunctions == {"drawScatterTilesTopN", "drawBoxplotPopularity"}

\* what has run with loading = TRUE after a render that executed the memos
\* ms and then the draw effects
Ran(ld, ms) ==
    IF ld
    THEN ranWhileLoading \cup ms
             \cup (IF drawEffectRuns(ld, v2Size) THEN {"drawScatterTilesTopN"} ELSE {})
             \cup (IF drawEffectRuns(ld, v3Size) THEN {"drawBoxplotPopularity"} ELSE {})
    ELSE ranWhileLoading

\* the size of the modal body once it is laid out
ModalRect == [width |-> 800, height |-> 600]

\* the modal draw effect after a render with loading flag ld, active view
\* av and modal size msz.  When a dependency changed, the cleanup of the
\* previous run calls cancelAnimationFrame(raf) with the handle of the outer
\* request: a pending outer callback is cancelled, a pending inner callback
\* (requested by the outer one, its handle kept nowhere) stays pending.
\* Then the effect runs again and requests a frame unless it returns first.
ModalEffect(ld, av, msz, changed) ==
    IF ~changed
    THEN UNCHANGED <<raf, orphan>>
    ELSE /\ orphan' = IF raf.stage = "inner" THEN raf ELSE orphan
         /\ raf' = IF av = NullType \/ ld
                   THEN NoRaf
                   ELSE [stage |-> "outer", view |-> av, size |-> msz, attached |-> TRUE]

\* a render and the effects after it, for the new rows rs, loading flag ld,
\* filters f, active view av and modal size msz; ms are the memos that
\* run, changed tells that a dependency of the modal effect other than a
\* filter changed.  The clamp effect runs after the first render and when
\* v2DurExtent changed, and the render it causes is the one that counts.
Render(rs, ld, f, av, msz, ms, changed) ==
    \E extOld \in {v2DurExtentOf(filteredRowsOf(rows, yearRange))},
       extNew \in {v2DurExtentOf(filteredRowsOf(rs, f.yearRange))} :
    \E th \in {IF pc = "created" \/ extNew # extOld
                THEN clampEffect(extNew, f.durThreshold)
                ELSE f.durThreshold} :
    \E g \in {[f EXCEPT !.durThreshold = th]} :
        /\ yearRange' = g.yearRange
        /\ durMode' = g.durMode
        /\ durThreshold' = g.durThreshold
        /\ showV3Dots' = g.showDots
        /\ v3HoverType' = g.hoverType
        /\ v3LockedType' = g.lockedType
        /\ activeView' = av
        /\ modalSize' = msz
        /\ ScatterEffect(rs, ld, g)
        /\ BoxplotEffect(rs, ld, g)
        /\ ModalEffect(ld, av, msz, changed \/ g # Filters)
        /\ ranWhileLoading' = Ran(ld, ms)

\* the render after rows was set: every memo runs again, then the effects
RenderWithRows(rs, ld, yr) ==
    /\ LET m == genreMemo(rs)
       IN  /\ topGenres' = m.topGenres
           /\ byYearGenre' = m.byYearGenre
    /\ Render(rs, ld, [Filters EXCEPT !.yearRange = yr], activeView, modalSize, RowMemos, TRUE)

\* the first render and the effects after it: the load effect starts the
\* request, the clamp effect runs, the draw effects return at "if (loading)"
Mount ==
    /\ pc = "created"
    /\ RenderWithRows(rows, loading, yearRange)
    /\ pc' = "fetching"
    /\ UNCHANGED <<rows, loading, response, csvData, consoleErrors, rowsAssigned, sizeVars,
                   pointer, selectedPair, modalDrawn, ranAfterCleanup>>

\* the request delivered the file: map, clean, setRows, setLoading(false);
\* the two updates are made in one continuation and end in the render
\* modelled here (a renderer that does not batch them renders once in
\* between, with the draw effects returning at "if (loading)")
LoadResolve ==
    /\ pc = "fetching"
    /\ response.ok
    /\ \E data \in {mapRows(response.records)} :
       \E cleanedRows \in {cleaned(data)} :
          /\ csvData' = data
          /\ rows' = cleanedRows
          /\ RenderWithRows(cleanedRows, FALSE, yearRange)
    /\ rowsAssigned' = rowsAssigned + 1
    /\ loading' = FALSE
    /\ pc' = "settled"
    /\ UNCHANGED <<response, consoleErrors, sizeVars, pointer, selectedPair, modalDrawn, ranAfterCleanup>>

\* the request failed and loading stays TRUE
LoadReject_pending ==
    /\ pc = "fetching"
    /\ ~response.ok
    /\ consoleErrors' = consoleErrors + 1
    /\ rows' = <<>>
    /\ rowsAssigned' = rowsAssigned + 1
    /\ RenderWithRows(<<>>, loading, yearRange)
    /\ pc' = "settled"
    /\ UNCHANGED <<loading, response, csvData, sizeVars, pointer, selectedPair, modalDrawn, ranAfterCleanup>>

\* the request failed: console.error, setRows([]), setLoading(false)
LoadReject ==
    /\ pc = "fetching"
    /\ ~response.ok
    /\ consoleErrors' = consoleErrors + 1
    /\ rows' = <<>>
    /\ rowsAssigned' = rowsAssigned + 1
    /\ loading' = FALSE
    /\ RenderWithRows(<<>>, FALSE, yearRange)
    /\ pc' = "settled"
    /\ UNCHANGED <<response, csvData, sizeVars, pointer, selectedPair, modalDrawn, ranAfterCleanup>>

\* Math.max(lo, Math.min(hi, x))
clampYear(x) == Max(yearExtent[1], Min(yearExtent[2], x))

\* the pair stored as it was selected, clamped only
setYearRangeSafe_unordered(next) ==
    IF next = Null THEN Null
    ELSE <<clampYear(next[1]), clampYear(next[2])>>

setYearRangeSafe(next) ==
    IF next = Null THEN Null
    ELSE LET a == Min(next[1], next[2])
             b == Max(next[1], next[2])
         IN  <<clampYear(a), clampYear(b)>>

\* what every handler leaves alone: the rows, the load and the pointer
StateFrame == UNCHANGED <<rows, pc, loading, response, csvData, consoleErrors, rowsAssigned,
                          sizeVars, pointer, modalDrawn, ranAfterCleanup>>

\* the frame of a handler that does not set the year range
HandlerFrame == StateFrame /\ UNCHANGED selectedPair

\* a render in which the genre memo follows the selected year range
RenderWithYearRange_regrouping(yr) ==
    /\ LET m == genreMemo(filteredRowsOf(rows, yr))
       IN  /\ topGenres' = m.topGenres
           /\ byYearGenre' = m.byYearGenre
    /\ Render(rows, loading, [Filters EXCEPT !.yearRange = yr], activeView, modalSize,
              FilterMemos, FALSE)
    /\ StateFrame

\* the render after yearRange was set: rows is unchanged, so the genre
\* memo keeps its value; the memos over filteredRows run again
RenderWithYearRange(yr) ==
    /\ Render(rows, loading, [Filters EXCEPT !.yearRange = yr], activeView, modalSize,
              FilterMemos, FALSE)
    /\ UNCHANGED v1Vars
    /\ StateFrame

\* the render after a state of the duration filter or of the album-type
\* selection was set
RenderWithFilters(f) ==
    /\ Render(rows, loading, f, activeView, modalSize,
              IF f.yearRange # yearRange THEN FilterMemos ELSE SelectionMemos, FALSE)
    /\ UNCHANGED v1Vars

Mounted == pc \in {"fetching", "settled"}

\* the controls of the page are operated with the pointer on them, that is
\* on no box of the box plot
OnControls == Mounted /\ pointer = NullType

\* the years offered by the two selectors that the model picks from
YearChoices == {2021, 2025}

\* setYearRangeSafe(next) called by a selector
SetYearRange(next) ==
    /\ selectedPair' = next
    /\ RenderWithYearRange(setYearRangeSafe(next))

\* onChange of the From selector
SelectFrom ==
    /\ OnControls
    /\ \E from \in YearChoices :
          SetYearRange(<<from, IF yearRange # Null THEN yearRange[2] ELSE yearExtent[2]>>)

\* onChange of the To selector
SelectTo ==
    /\ OnControls
    /\ \E to \in YearChoices :
          SetYearRange(<<IF yearRange # Null THEN yearRange[1] ELSE yearExtent[1], to>>)

\* onClick of Clear (disabled while no year range is selected): setYearRange(null)
ClearYearRange ==
    /\ OnControls
    /\ yearRange # Null
    /\ selectedPair' = Null
    /\ RenderWithYearRange(Null)

DurModes == {"all", "ge", "le"}

\* onChange of the duration-mode selector
SetDurMode ==
    /\ OnControls
    /\ \E m \in DurModes :
          /\ m # durMode
          /\ RenderWithFilters([Filters EXCEPT !.durMode = m])
    /\ HandlerFrame

\* onClick of the duration filter's Clear (disabled while the mode is "all")
ClearDuration ==
    /\ OnControls
    /\ durMode # "all"
    /\ RenderWithFilters([Filters EXCEPT !.durMode = "all"])
    /\ HandlerFrame

\* the positions of a range input with min = lo, max = hi, step = 0.1 that
\* the model picks from: the first and the last one
SliderPicks(ext) ==
    LET last == RFloor(RMul(RSub(ext.hi, ext.lo), Num(10)))
    IN  {ext.lo, RAdd(ext.lo, Frac(last, 10))}

\* onChange of the threshold slider (disabled while the mode is "all" or
\* the extent is a single value)
MoveSlider ==
    /\ OnControls
    /\ LET ext == v2DurExtentOf(filteredRowsOf(rows, yearRange))
       IN  /\ durMode # "all"
           /\ ext.lo # ext.hi
           /\ \E v \in SliderPicks(ext) : RenderWithFilters([Filters EXCEPT !.durThreshold = v])
    /\ HandlerFrame

\* onClick of the dots button
ToggleDots ==
    /\ OnControls
    /\ RenderWithFilters([Filters EXCEPT !.showDots = ~showV3Dots])
    /\ HandlerFrame

\* the state set by resetAll
resetAll ==
    [yearRange |-> Null, durMode |-> "all", durThreshold |-> Num(3),
     showDots |-> TRUE, hoverType |-> NullType, lockedType |-> NullType]

\* onClick of Reset
ResetAll ==
    /\ OnControls
    /\ RenderWithFilters(resetAll)
    /\ selectedPair' = Null
    /\ StateFrame

\* the album types that have a box
Boxes == { v3Summary[k].album_type : k \in 1..Len(v3Summary) }

\* mouseenter on the box of type t: if (!opts.lockedType) opts.onHoverType(t)
PointerEnter ==
    /\ Mounted
    /\ pointer = NullType
    /\ \E t \in Boxes :
          /\ pointer' = t
          /\ RenderWithFilters(IF boxOpts.lockedType = NullType
                               THEN [Filters EXCEPT !.hoverType = t]
                               ELSE Filters)
    /\ UNCHANGED <<rows, pc, loading, response, csvData, consoleErrors, rowsAssigned, sizeVars,
                   selectedPair, modalDrawn, ranAfterCleanup>>

\* mouseleave: if (!opts.lockedType) opts.onLeave()
PointerLeave ==
    /\ Mounted
    /\ pointer # NullType
    /\ pointer' = NullType
    /\ RenderWithFilters(IF boxOpts.lockedType = NullType
                         THEN [Filters EXCEPT !.hoverType = NullType]
                         ELSE Filters)
    /\ UNCHANGED <<rows, pc, loading, response, csvData, consoleErrors, rowsAssigned, sizeVars,
                   selectedPair, modalDrawn, ranAfterCleanup>>

\* setV3LockedType((cur) => (cur === t ? null : t))
onClickType(cur, t) == IF cur = t THEN NullType ELSE t

\* click on the box under the pointer
ClickBox ==
    /\ Mounted
    /\ pointer # NullType
    /\ RenderWithFilters([Filters EXCEPT !.lockedType = onClickType(v3LockedType, pointer)])
    /\ HandlerFrame

Views == {"v1", "v2", "v3"}

\* onClick of a card: setActiveView(v); while a view is active the cards
\* lie under the overlay of the modal
OpenModal ==
    /\ Mounted
    /\ activeView = NullType
    /\ \E v \in Views :
          /\ Render(rows, loading, Filters, v, modalSize, {}, TRUE)
    /\ UNCHANGED v1Vars
    /\ HandlerFrame

\* onMouseDown of the overlay and onClick of the close button:
\* setActiveView(null); the modal's elements leave the document
CloseModal ==
    /\ Mounted
    /\ activeView # NullType
    /\ activeView' = NullType
    /\ orphan' = IF raf.stage = "inner" THEN [raf EXCEPT !.attached = FALSE]
                 ELSE [orphan EXCEPT !.attached = FALSE]
    /\ raf' = NoRaf
    /\ modalDrawn' = NullType
    /\ UNCHANGED <<rows, pc, v1Vars, v2Vars, v3Vars, sizeVars, yearRange, loadVars, uiVars,
                   modalSize, ranAfterCleanup>>

\* the sizes the observer of the modal body reports
ModalSizes == {ZeroSize, ModalRect}

\* the resize observer of the modal body reports a size
ModalResize ==
    /\ Mounted
    /\ activeView # NullType
    /\ \E msz \in ModalSizes :
          /\ msz # modalSize
          /\ Render(rows, loading, Filters, activeView, msz, {}, TRUE)
    /\ UNCHANGED v1Vars
    /\ HandlerFrame

\* the draw callback of a modal effect run c: the size is the observed one
\* or, failing that, the rectangle of the modal body (empty once the body
\* has left the document); returns the view it draws, NullType for none
draw(c) ==
    LET rect == IF c.attached THEN ModalRect ELSE ZeroSize
        w == IF c.size.width # 0 THEN c.size.width ELSE rect.width
        h == IF c.size.height # 0 THEN c.size.height ELSE rect.height
    IN  IF w <= 0 \/ h <= 0 THEN NullType ELSE c.view

\* an animation frame: the callbacks requested before it run in the order
\* of their requests -- the inner callback left behind by a cleaned-up run,
\* then the callback of the live run (the outer one requests the inner one
\* for the next frame, the inner one draws)
AnimationFrame ==
    /\ raf.stage # "none" \/ orphan.stage # "none"
    /\ orphan' = NoRaf
    /\ ranAfterCleanup' = (ranAfterCleanup \/ orphan.stage = "inner")
    /\ raf' = IF raf.stage = "outer" THEN [raf EXCEPT !.stage = "inner"] ELSE NoRaf
    /\ modalDrawn' =
          LET stale == IF orphan.stage = "inner" /\ orphan.attached /\ draw(orphan) # NullType
                       THEN draw(orphan) ELSE modalDrawn
          IN  IF raf.stage = "inner" /\ draw(raf) # NullType THEN draw(raf) ELSE stale
    /\ UNCHANGED <<rows, pc, v1Vars, v2Vars, v3Vars, sizeVars, yearRange, loadVars, uiVars,
                   activeView, modalSize>>

(***************************************************************************)
(* CSV files.  Every record of a file has the columns of its header.       *)
(***************************************************************************)
MaxCsvRecords == 2
MaxAppRecords == 2

AllColumns ==
    {"track_id", "track_name", "artist_name", "track_popularity", "artist_popularity",
     "artist_followers", "artist_genres", "album_type", "album_release_year",
     "album_release_date", "track_duration_min", "track_duration_ms"}

Date2021 == <<"2", "0", "2", "1", "-", "0", "5", "-", "0", "1">>

BaseRecord ==
    [track_id |-> <<"r1">>, track_name |-> <<"song">>, artist_name |-> <<"artist">>,
     track_popularity |-> <<"5", "0">>, artist_popularity |-> <<"5", "0">>,
     artist_followers |-> <<"1", "0", "0", "0">>, artist_genres |-> <<"pop">>,
     album_type |-> <<"album">>, album_release_year |-> <<"2", "0", "2", "0">>,
     album_release_date |-> Date2021,
     track_duration_min |-> <<"3">>, track_duration_ms |-> <<"2", "4", "0", "0", "0", "0">>]

CsvRecordPool ==
    { BaseRecord,
      [BaseRecord EXCEPT !.track_id = <<"r2">>, !.album_release_year = <<>>,
                         !.artist_genres = <<"jazz">>],
      [BaseRecord EXCEPT !.track_id = <<"r3">>, !.album_release_year = <<"n", "/", "a">>,
                         !.album_type = <<" ", "SINGLE", " ">>],
      [BaseRecord EXCEPT !.track_id = <<"r4">>, !.album_release_year = <<>>,
                         !.album_release_date = <<>>],
      [BaseRecord EXCEPT !.track_id = <<"r5">>, !.album_release_year = <<"x">>,
                         !.album_release_date = <<"5", "/", "1", "/", "2", "0", "2", "1">>],
      [BaseRecord EXCEPT !.track_id = <<"r6">>, !.track_duration_min = <<>>,
                         !.album_type = <<"EP">>],
      [BaseRecord EXCEPT !.track_id = <<"r7">>, !.track_duration_min = <<"x">>,
                         !.track_duration_ms = <<"0">>],
      [BaseRecord EXCEPT !.track_id = <<"r8">>, !.track_duration_min = <<"x">>,
                         !.album_type = <<>>],
      [BaseRecord EXCEPT !.track_id = <<"r9">>, !.track_duration_min = <<"x">>,
                         !.track_duration_ms = <<"x">>, !.album_type = <<"Album">>],
      [BaseRecord EXCEPT !.track_id = <<"r10">>, !.track_popularity = <<"n", "/", "a">>],
      [BaseRecord EXCEPT !.track_id = <<"r11">>, !.artist_followers = <<"?">>,
                         !.album_type = <<"compilation">>],
      [BaseRecord EXCEPT !.track_id = <<"r12">>, !.track_popularity = <<>>,
                         !.artist_followers = <<" ">>] }

\* the headers of the files of the model: every column, and the file
\* without the explicit year, the explicit minutes, both fallbacks, or the
\* album type
CsvHeaders ==
    { AllColumns,
      AllColumns \ {"album_release_year"},
      AllColumns \ {"track_duration_min"},
      AllColumns \ {"album_release_year", "track_duration_ms"},
      AllColumns \ {"album_release_date", "track_duration_ms", "album_type"} }

Restrict(d, cols) == [f \in DOMAIN d \cap cols |-> d[f]]

CsvFile(cols, records) ==
    [ok |-> TRUE, columns |-> cols,
     records |-> [i \in 1..Len(records) |-> Restrict(records[i], cols)]]

RequestFailed == [ok |-> FALSE, columns |-> {}, records |-> <<>>]

\* the state after construction: the initial values of useState, nothing
\* rendered yet
Created ==
    /\ rows = <<>>
    /\ loading = TRUE
    /\ yearRange = Null
    /\ csvData = <<>>
    /\ consoleErrors = 0
    /\ ranWhileLoading = {}
    /\ rowsAssigned = 0
    /\ durThreshold = Num(3)
    /\ NoInteraction
    /\ pc = "created"
    /\ topGenres = <<>>
    /\ byYearGenre = <<>>
    /\ v2Data = <<>>
    /\ v2LegendMin = Num(0)
    /\ v2LegendMax = Num(1)
    /\ v3Summary = <<>>

(***************************************************************************)
(* SpecLoad: the load effect applied to every bounded CSV file.            *)
(***************************************************************************)
InitLoad ==
    /\ Created
    /\ response \in { CsvFile(cols, rs) : cols \in CsvHeaders,
                                          rs \in SeqsUpTo(CsvRecordPool, MaxCsvRecords) }
                      \cup {RequestFailed}
    /\ v2Size = [width |-> 600, height |-> 400]
    /\ v3Size = [width |-> 600, height |-> 400]

NextLoad == Mount \/ LoadResolve \/ LoadReject

SpecLoad == InitLoad /\ [][NextLoad]_vars

(***************************************************************************)
(* Spec: the App with its filters and the album-type selection.            *)
(***************************************************************************)
AppRecord(id, yr, genres, type, minutes) ==
    [BaseRecord EXCEPT !.track_id = id, !.album_release_year = yr, !.artist_genres = genres,
                       !.album_type = type, !.track_duration_min = minutes]

AppRecordPool ==
    { AppRecord(<<"a1">>, <<"2", "0", "2", "0">>, <<"pop", ",", "rock">>, <<"album">>, <<"4">>),
      AppRecord(<<"a2">>, <<"2", "0", "2", "0">>, <<"pop">>, <<"single">>, <<"5">>),
      AppRecord(<<"a4">>, <<"1", "9", "9", "7">>, <<"rock">>, <<"compilation">>, <<"3">>) }

AppSizes == { ZeroSize, [width |-> 600, height |-> 400] }

Init ==
    /\ Created
    /\ response \in { CsvFile(AllColumns, rs) : rs \in SeqsUpTo(AppRecordPool, MaxAppRecords) }
                      \cup {RequestFailed}
    /\ v2Size \in AppSizes
    /\ v3Size = v2Size

Next ==
    \/ Mount \/ LoadResolve \/ LoadReject
    \/ SelectFrom \/ SelectTo \/ ClearYearRange
    \/ SetDurMode \/ ClearDuration \/ MoveSlider \/ ToggleDots \/ ResetAll
    \/ PointerEnter \/ PointerLeave \/ ClickBox

Spec == Init /\ [][Next]_vars

\* the step in which the request settles: the continuation after the
\* await, on the try path (LoadResolve) or the catch path (LoadReject)
LoadSettles == pc = "fetching" /\ pc' = "settled"

\* the first render follows construction and the request settles: the
\* renderer commits the component and the event loop runs the continuation
\* of the settled request
SpecLive ==
    /\ Init /\ [][Next]_vars
    /\ WF_vars(Mount) /\ WF_pc(LoadSettles)

(***************************************************************************)
(* SpecModal: the App with the modal that zooms a view.  The filters stay  *)
(* as they are; the modal changes no state of the dashboard behind it.     *)
(***************************************************************************)
NextModal ==
    \/ Mount \/ LoadResolve \/ LoadReject
    \/ OpenModal \/ CloseModal \/ ModalResize \/ AnimationFrame

SpecModal == Init /\ [][NextModal]_vars

(***************************************************************************)
(* Properties of the App.                                                  *)
(***************************************************************************)
\* top is the ranking of the genres of the rows rs, cut at ten
TopGenresOver(top, rs) ==
    /\ RankedTopGenres(top, rs)
    /\ Len(top) = Min(10, Cardinality(SetOf(Occurrences(rs))))

\* C12 as claimed: once a year range [from, to] is selected, topGenres is
\* the ranking by total weighted count of only the tracks released in
\* [from, to], and the matrix counts only those tracks.
C12_TopGenresFollowYearRange ==
    (pc = "settled" /\ yearRange # Null) =>
        /\ TopGenresOver(topGenres, filteredRowsOf(rows, yearRange))
        /\ MatrixOver(byYearGenre, filteredRowsOf(rows, yearRange))

\* C12 amended: whatever year range is selected, topGenres is the ranking
\* by total weighted count of the tracks released in the fixed extent
\* 1998..2025 and the matrix holds the counts of those tracks for every
\* year of the extent; a year-range change leaves both as they are.
C12_TopGenresOverYearExtent ==
    Mounted =>
        /\ TopGenresOver(topGenres, RowsInRange)
        /\ MatrixOver(byYearGenre, RowsInRange)
        /\ CellKeys = Years \X SetOf(topGenres)

\* a year range is selected that holds no track of a top genre, and a
\* track outside the fixed extent is loaded
C12_Witness ==
    /\ pc = "settled"
    /\ yearRange # Null
    /\ Len(topGenres) >= 2
    /\ \E i \in 1..Len(topGenres) :
          TotalWeight(topGenres[i], filteredRowsOf(rows, yearRange)) = Num(0)
    /\ Len(RowsInRange) < Len(rows)

(***************************************************************************)
(* Properties of the load effect.                                          *)
(***************************************************************************)
HasFiniteFields(d) ==
    /\ d.year # NaN
    /\ d.track_popularity # NaN
    /\ d.artist_followers # NaN
    /\ d.track_duration_min # NaN

\* C13: every row held in rows has a finite year, track popularity,
\* follower count and duration; once the file is loaded, rows is the
\* mapped records without those that lack one of the four values, in file
\* order, and no error has been logged for the dropped ones.
C13_RowsAreFinite ==
    /\ \A i \in 1..Len(rows) : HasFiniteFields(rows[i])
    /\ (pc = "settled" /\ response.ok) =>
          /\ rows = SelectSeq(csvData, HasFiniteFields)
          /\ consoleErrors = 0

\* a file of two records of which one is dropped
C13_Witness ==
    /\ pc = "settled"
    /\ response.ok
    /\ Len(csvData) = 2
    /\ Len(rows) = 1
    /\ consoleErrors = 0

\* field f of the CSV record d holds a numeric value: digits, possibly
\* surrounded by whitespace
HoldsNumber(d, f) ==
    /\ f \in DOMAIN d
    /\ \E i \in 1..Len(d[f]) : IsDigit(d[f][i])
    /\ \A i \in 1..Len(d[f]) : IsDigit(d[f][i]) \/ IsSpace(d[f][i])

NumberHeld(d, f) == DecimalValue(0, SelectSeq(d[f], IsDigit))

\* the integer written in the first four characters of album_release_date
DateYear(d) ==
    LET first4 == [c |-> SubSeq(Field(d, "album_release_date"), 1,
                                    Min(4, Len(Field(d, "album_release_date"))))]
    IN  IF HoldsNumber(first4, "c") THEN NumberHeld(first4, "c") ELSE NaN

ClaimedYear(d) ==
    IF HoldsNumber(d, "album_release_year") THEN NumberHeld(d, "album_release_year")
    ELSE DateYear(d)

Loaded == pc = "settled" /\ response.ok

\* C14 as claimed: the year of every mapped record is album_release_year
\* when that field holds a number and otherwise (absent, empty or
\* non-numeric) the integer in the first 4 characters of
\* album_release_date; a record for which neither is finite is not in rows.
C14_YearResolution ==
    Loaded =>
        \A i \in 1..Len(csvData) :
            /\ csvData[i].year = ClaimedYear(response.records[i])
            /\ ClaimedYear(response.records[i]) = NaN =>
                  \A j \in 1..Len(rows) :
                      Field(rows[j], "track_id") # Field(response.records[i], "track_id")

\* C15 as claimed: the duration of every mapped record is
\* track_duration_min when that field holds a number, otherwise
\* track_duration_ms / 60000 for any finite track_duration_ms, and is not
\* finite only when neither field is.
C15_DurationResolution ==
    Loaded =>
        \A i \in 1..Len(csvData) :
            LET d == response.records[i]
                dur == csvData[i].track_duration_min
            IN  IF HoldsNumber(d, "track_duration_min")
                THEN dur = NumberHeld(d, "track_duration_min")
                ELSE IF HoldsNumber(d, "track_duration_ms")
                     THEN dur # NaN /\ dur * 60000 = NumberHeld(d, "track_duration_ms")
                     ELSE dur = NaN

RecognizedTypes == {"album", "single", "compilation"}

\* the album_type value of d, trimmed and lower-cased, when it is one word
TypeWord(d) ==
    LET v == SelectSeq(Field(d, "album_type"), LAMBDA c: ~IsSpace(c))
    IN  IF Len(v) = 1 THEN toLowerCase(v)[1] ELSE "other"

\* C16 as claimed: the album type of every mapped record is one of album,
\* single, compilation, other: the trimmed lower-cased value when that is
\* a recognized type, and other when the value is empty, missing or
\* unrecognized.
C16_AlbumTypeClosed ==
    Loaded =>
        \A i \in 1..Len(csvData) :
            /\ csvData[i].album_type \in RecognizedTypes \cup {"other"}
            /\ csvData[i].album_type =
                  (IF TypeWord(response.records[i]) \in RecognizedTypes
                   THEN TypeWord(response.records[i]) ELSE "other")

\* C18: when the load fails, rows becomes the empty list, the failure is
\* logged and goes no further (loading ends); and with rows empty,
\* topGenres and byYearGenre are empty, the per-album-type distribution
\* list is empty, nothing is drawn of it, and the legend bounds are (0, 1).
C18_LoadFailureDegrades ==
    pc = "settled" =>
        /\ ~response.ok => (rows = <<>> /\ consoleErrors = 1 /\ loading = FALSE)
        /\ rows = <<>> =>
              /\ topGenres = <<>>
              /\ byYearGenre = <<>>
              /\ byTypePopFiltered(filteredRowsOf(rows, yearRange)) = <<>>
              /\ v3Summary = <<>>
              /\ v2Data = <<>>
              /\ v2LegendMin = Num(0)
              /\ v2LegendMax = Num(1)

\* the load failed and the scatter effect has drawn, also after a year
\* range was selected
C18_Witness ==
    /\ pc = "settled"
    /\ ~response.ok
    /\ rows = <<>>
    /\ v2Size.width > 0
    /\ yearRange # Null

\* C19 as claimed: while loading is TRUE no aggregation function executes
\* and no chart is drawn.
C19_NothingRunsWhileLoading ==
    /\ ranWhileLoading = {}
    /\ loading => (v2Data = <<>> /\ v3Summary = <<>>)

\* C19 amended: while loading is TRUE no chart is drawn and no draw
\* function (with the top-N selection and the box summary it computes)
\* executes, so the legend bounds keep their initial values; the memoized
\* aggregations are not held back by loading and execute in the renders
\* made while it is TRUE.
C19_NothingDrawnWhileLoading ==
    /\ ranWhileLoading \cap DrawFunctions = {}
    /\ pc # "created" => RowMemos \subseteq ranWhileLoading
    /\ loading =>
          /\ v2Data = <<>> /\ v3Summary = <<>>
          /\ v2LegendMin = Num(0) /\ v2LegendMax = Num(1)

\* still loading, the containers have a size, the memos have run and a
\* year range has been selected
C19_Witness ==
    /\ loading
    /\ pc = "fetching"
    /\ v2Size.width > 0 /\ v3Size.width > 0
    /\ "byTypePopFiltered" \in ranWhileLoading
    /\ yearRange # Null

(***************************************************************************)
(* Properties of the controls, the box-plot pointer handlers and the modal *)
(***************************************************************************)

\* C24: while no album type is locked, selectedAlbumType is the type of the
\* box the pointer is over, and null when the pointer is over no box.
C24_SelectionFollowsPointer ==
    (Mounted /\ v3LockedType = NullType) => selectedAlbumTypeOf(Filters) = pointer

\* C25: once a run of the modal draw effect has been cleaned up, the draw
\* callback that run requested through the two nested animation-frame
\* requests never executes.
C25_NoDrawAfterCleanup ==
    ranAfterCleanup = FALSE

\* C26: after the dataset has loaded with a duration extent lo < hi and the
\* clamp effect has run, durThreshold lies within [lo, hi] of the current
\* v2DurExtent in every state reached by changing the year range, changing
\* the duration mode, moving the slider or pressing Reset.
C26_ThresholdWithinExtent ==
    LET loaded == v2DurExtentOf(rows)
        ext == v2DurExtentOf(filteredRowsOf(rows, yearRange))
    IN  (pc = "settled" /\ rows # <<>> /\ RLt(loaded.lo, loaded.hi)) =>
            (RLe(ext.lo, durThreshold) /\ RLe(durThreshold, ext.hi))

\* C27: with no user interaction, when loading completes and the duration
\* extent [lo, hi] of the loaded data contains 3.0, durThreshold still has
\* its default value 3.0.
C27_DefaultThresholdKept ==
    LET ext == v2DurExtentOf(rows)
    IN  (pc = "settled" /\ NoInteraction /\ yearRange = Null
            /\ RLe(ext.lo, Num(3)) /\ RLe(Num(3), ext.hi)) =>
            durThreshold = Num(3)

\* C28: in every reachable state yearRange is null or a pair <<a, b>> with
\* 1998 <= a <= b <= 2025, under any sequence of From/To selections, Clear
\* and Reset; a selection with From > To is stored swapped.
C28_YearRangeOrdered ==
    /\ yearRange # Null =>
          /\ yearExtent[1] <= yearRange[1]
          /\ yearRange[1] <= yearRange[2]
          /\ yearRange[2] <= yearExtent[2]
    /\ selectedPair # Null =>
          /\ yearRange # Null
          /\ selectedPair[1] > selectedPair[2] =>
                yearRange = <<selectedPair[2], selectedPair[1]>>

\* a From later than the To has been selected
C28_Witness ==
    /\ selectedPair # Null
    /\ selectedPair[1] > selectedPair[2]
    /\ yearRange # Null

\* C29: every row passed to the scatter (and so every dot it draws) has a
\* release year within the dashboard extent 1998..2025, when a year range
\* is selected and when the year filter is null.
C29_ScatterWithinExtent ==
    LET passed == v2FilteredRowsOf(filteredRowsOf(rows, yearRange), Filters)
    IN  /\ \A i \in 1..Len(passed) : inYearExtent(passed[i])
        /\ \A i \in 1..Len(v2Data) : inYearExtent(v2Data[i])

\* C30: the load lifecycle always finishes: loading starts TRUE and
\* eventually becomes FALSE whether the load succeeds or fails, it never
\* returns to TRUE afterwards, rows is assigned at most once and never
\* later than the step that sets loading to FALSE, and rows is never
\* changed by a filter, hover, lock or reset action.
C30_LoadLifecycle ==
    /\ [](pc = "created" => loading = TRUE)
    /\ (pc = "created") ~> (loading = FALSE)
    /\ [][~loading => ~loading']_vars
    /\ [](rowsAssigned <= 1)
    /\ [][(rows' # rows \/ rowsAssigned' # rowsAssigned) =>
             (loading /\ ~loading' /\ pc = "fetching" /\ pc' = "settled")]_vars

\* the load has finished with rows assigned once, and a year range and a
\* locked album type have been set since without touching rows
C30_Witness ==
    /\ ~loading
    /\ rowsAssigned = 1
    /\ rows # <<>>
    /\ rows = cleaned(csvData)
    /\ yearRange # Null
    /\ v3LockedType # NullType

====
